---- MODULE Spec2Model ----
(***************************************************************************)
(* Electoral Auditor (VERAVE): the phased comparator of                    *)
(* src/core/comparator.py, the text parser of src/core/pdf_parser.py and   *)
(* the tabular aggregator of src/core/csv_loader.py.                       *)
(*                                                                         *)
(* A dict is a sequence of [key, value] entries in insertion order; an     *)
(* optional value is <<>> (None) or <<v>>; a message is the sequence of    *)
(* the pieces its f-string is built from, numbers formatted by ToString.   *)
(***************************************************************************)
EXTENDS Integers, Sequences, FiniteSets, TLC

VARIABLES
    pdf_result,     \* PdfParseResult handed to compare_results
    csv_result,     \* CsvLoadResult handed to compare_results
    csv_map,        \* compare_results: the selected tabular map
    pdf_map,        \* compare_results: the text map under normalized keys
    items,          \* compare_results: the trace being built
    pc,             \* compare_results: position in the function body
    i,              \* compare_results: index of the running for loop
    pdf_valid,      \* compare_results: local of phase 3
    csv_valid,      \* compare_results: local of phase 3
    pdf_invalid,    \* compare_results: locals pdf_invalid_total/_h/_m of phase 4
    csv_invalid,    \* compare_results: locals csv_invalid_total/_h/_m of phase 4
    diffs,          \* the list returned by _candidate_diffs, once it was called
    result,         \* the returned ComparisonResult, None until the return
    d_pdf_map,      \* _candidate_diffs: parameter pdf_map
    d_csv_map,      \* _candidate_diffs: parameter csv_map
    d_i,            \* _candidate_diffs: index of the for loop
    d_diffs,        \* _candidate_diffs: local diffs
    d_pc,           \* _candidate_diffs: position in the body and in the caller's hint
    d_hint,         \* the hint the caller builds from the returned list
    p_doc,          \* parse_pdf: the document behind pdf_path
    p_lines,        \* parse_pdf: local lines
    p_pc,           \* parse_pdf: position in the function body
    p_i,            \* parse_pdf: index of the loop over lines
    p_vuelta,       \* parse_pdf: local vuelta
    p_entidades,    \* parse_pdf: local entidades
    p_out,          \* parse_pdf: the returned PdfParseResult, None until the return
    p_error,        \* parse_pdf: the message of the PdfParseError raised, None if none
    c_table,        \* load_csv: the table pd.read_csv decodes from csv_path
    c_vuelta,       \* load_csv: parameter vuelta
    c_pc,           \* load_csv: position in the function body
    c_df,           \* load_csv: local df
    c_entidades,    \* load_csv: local entidades
    c_provincia,    \* load_csv: local entidades_por_provincia
    c_out,          \* load_csv: the returned CsvLoadResult, None until the return
    c_error,        \* load_csv: the message of the ValueError raised, None if none
    u_pc,           \* AppWindow._run_validation: position in the handler
    u_box           \* AppWindow: the lines of result_box, each with its tag

cmpVars == <<pdf_result, csv_result, csv_map, pdf_map, items, pc, i,
             pdf_valid, csv_valid, pdf_invalid, csv_invalid, diffs, result>>

dfVars == <<d_pdf_map, d_csv_map, d_i, d_diffs, d_pc, d_hint>>

pdfVars == <<p_doc, p_lines, p_pc, p_i, p_vuelta, p_entidades, p_out, p_error>>

csvVars == <<c_table, c_vuelta, c_pc, c_df, c_entidades, c_provincia, c_out, c_error>>

uiVars == <<u_pc, u_box>>

vars == <<cmpVars, dfVars, pdfVars, csvVars, uiVars>>

\* What the steps of compare_results leave alone
nonCmpVars == <<dfVars, pdfVars, csvVars, uiVars>>

\* What the steps of _candidate_diffs leave alone
nonDfVars == <<cmpVars, pdfVars, csvVars, uiVars>>

\* What the steps of parse_pdf leave alone
nonPdfVars == <<cmpVars, dfVars, csvVars, uiVars>>

\* What the steps of load_csv leave alone
nonCsvVars == <<cmpVars, dfVars, pdfVars, uiVars>>

\* What the steps of _run_validation between the calls leave alone
nonUiVars == <<dfVars>>

----------------------------------------------------------------------------
(* Values *)

None == <<>>
Some(x) == <<x>>
Val(o) == o[1]

\* Mutant: a lookup that found nothing passes for a hit
Falsy_Never(votes) == FALSE

\* "not votes" on an EntityVotes | None: the dataclass defines neither __bool__
\* nor __len__, so only None is falsy
Falsy(votes) == votes = None

EntityVotes(entidad, total, hombres, mujeres) ==
    [entidad |-> entidad, total |-> total, hombres |-> hombres, mujeres |-> mujeres]

PdfParseResult(vuelta, entidades) == [vuelta |-> vuelta, entidades |-> entidades]

CsvLoadResult(vuelta, entidades, entidades_por_provincia) ==
    [vuelta |-> vuelta, entidades |-> entidades,
     entidades_por_provincia |-> entidades_por_provincia]

ComparisonItem(entidad, ok, pdf, csv, message, phase, is_header) ==
    [entidad |-> entidad, ok |-> ok, pdf |-> pdf, csv |-> csv,
     message |-> message, phase |-> phase, is_header |-> is_header]

ComparisonResult(its, halted, halt_reason) ==
    [items |-> its, halted |-> halted, halt_reason |-> halt_reason]

NON_VOTE_ENTITIES ==
    {"ELECTORES", "ELECTORES PPL", "TOTAL ELECTORES + PPL", "JUNTAS", "JUNTAS PPL",
     "TOTAL JUNTAS + PPL", "JUNTAS ANULADAS", "SUFRAGANTES", "AUSENTISMO"}

NON_VALID_ENTITIES == {"BLANCOS", "NULOS"}

----------------------------------------------------------------------------
(* Dicts *)

Keys(d) == {d[n].key : n \in DOMAIN d}

IndexOf(d, k) == CHOOSE n \in DOMAIN d : d[n].key = k

\* dict.get(k): None when the key is absent
Get(d, k) == IF k \in Keys(d) THEN Some(d[IndexOf(d, k)].value) ELSE None

\* d[k] = v: an existing key keeps its position, a new key goes last
Put(d, k, v) ==
    IF k \in Keys(d)
    THEN [d EXCEPT ![IndexOf(d, k)] = [key |-> k, value |-> v]]
    ELSE Append(d, [key |-> k, value |-> v])

\* The spellings of the model's names that are not in normal form, with the
\* normal form str.strip().upper().split() joined by one space gives them.
Spellings ==
    {<<" a ", "A">>, <<"b", "B">>, <<"Blancos", "BLANCOS">>, <<"nulos ", "NULOS">>,
     <<"votos  validos", "VOTOS VALIDOS">>, <<"electores", "ELECTORES">>,
     <<" Sufragantes", "SUFRAGANTES">>, <<"p  -  a", "P - A">>, <<"p - b ", "P - B">>}

Normalize(text) ==
    IF \E s \in Spellings : s[1] = text
    THEN (CHOOSE s \in Spellings : s[1] = text)[2]
    ELSE text

RECURSIVE NormalizeMapFrom(_, _, _)
NormalizeMapFrom(entidades, n, acc) ==
    IF n > Len(entidades) THEN acc
    ELSE NormalizeMapFrom(entidades, n + 1,
                          Put(acc, Normalize(entidades[n].key), entidades[n].value))

\* {_normalize(key): value for key, value in pdf_result.entidades.items()}
NormalizeMap(entidades) == NormalizeMapFrom(entidades, 1, <<>>)

----------------------------------------------------------------------------
(* Messages *)

FmtFM(v) == <<"H=", ToString(v.hombres), ", M=", ToString(v.mujeres)>>

FmtT(v) == <<"T=", ToString(v.total)>>

FmtTHM(v) ==
    <<"T=", ToString(v.total), ", H=", ToString(v.hombres), ", M=", ToString(v.mujeres)>>

MsgMissing1(key) == <<"[X] ", key, ": No existe en el PDF (fase 1: F/M).">>

\* Mutant: the table's values are printed on both sides
MsgDiffFM_CsvTwice(key, p, c) ==
    <<"[X] ", key, ": Discrepancia en F/M. ", "PDF: ">> \o FmtFM(c) \o <<". ", "CSV: ">>
        \o FmtFM(c) \o <<".">>

MsgDiffFM(key, p, c) ==
    <<"[X] ", key, ": Discrepancia en F/M. ", "PDF: ">> \o FmtFM(p) \o <<". ", "CSV: ">>
        \o FmtFM(c) \o <<".">>

MsgOkFM(key) == <<"[OK] ", key, ": F/M coinciden.">>

MsgMissing2(key) == <<"[X] ", key, ": No existe en el PDF (fase 2: Totales).">>

MsgDiffTotal(key, p, c) ==
    <<"[X] ", key, ": Discrepancia en Total. ", "PDF: ">> \o FmtT(p) \o <<". CSV: ">>
        \o FmtT(c) \o <<".">>

MsgOkTotal(key) == <<"[OK] ", key, ": Total coincide.">>

MsgMissing3(label) == <<"[X] ", label, ": No existe en PDF o CSV (fase 3).">>

MsgDiff3(label, p, c) ==
    <<"[X] ", label, ": Discrepancia detectada. ", "PDF: ">> \o FmtTHM(p) \o <<". ", "CSV: ">>
        \o FmtTHM(c) \o <<".">>

MsgOk3(label) == <<"[OK] ", label, ": Coinciden.">>

MsgMissing4 == <<"[X] Invalidos: Faltan BLANCOS o NULOS en PDF/CSV (fase 4).">>

\* One entry of the list _candidate_diffs returns
DiffEntry(norm_key, p, c) ==
    <<norm_key, " (T ", ToString(p.total), "->", ToString(c.total),
      ", H ", ToString(p.hombres), "->", ToString(c.hombres),
      ", M ", ToString(p.mujeres), "->", ToString(c.mujeres), ")">>

RECURSIVE Join(_, _)
\* sep.join(parts), the parts being sequences of pieces
Join(sep, parts) ==
    IF parts = <<>> THEN <<>>
    ELSE IF Len(parts) = 1 THEN parts[1]
    ELSE parts[1] \o <<sep>> \o Join(sep, Tail(parts))

HintNone == <<" No se encontraron diferencias por candidato.">>

HintSome == " Posibles diferencias en candidatos: "

Hint(ds) == IF ds # <<>> THEN <<HintSome>> \o Join("; ", ds) ELSE HintNone

----------------------------------------------------------------------------
(* comparator.py: helpers of compare_results *)

\* _candidate_diffs: the default of its limit parameter
DiffLimit == 5

\* Mutant: the scan goes over BLANCOS too
DiffSkip_NoBlancos == {"NULOS", "VOTOS VALIDOS", "SUFRAGANTES"}

DiffSkip == {"BLANCOS", "NULOS", "VOTOS VALIDOS", "SUFRAGANTES"}

VotesDiffer(p, c) ==
    p.total # c.total \/ p.hombres # c.hombres \/ p.mujeres # c.mujeres

\* Mutant: the loop stops one entry late
DiffStep_LateBreak(pmap, entry, limit, ds) ==
    LET norm_key == Normalize(entry.key)
        pdf_votes == Get(pmap, norm_key)
    IN  IF norm_key \in NON_VOTE_ENTITIES \/ norm_key \in DiffSkip \/ pdf_votes = None
        THEN [diffs |-> ds, stop |-> FALSE]
        ELSE IF VotesDiffer(Val(pdf_votes), entry.value)
        THEN [diffs |-> Append(ds, DiffEntry(norm_key, Val(pdf_votes), entry.value)),
              stop |-> Len(ds) + 1 > limit]
        ELSE [diffs |-> ds, stop |-> FALSE]

\* One iteration of the loop of _candidate_diffs on the entry (key, csv_votes):
\* the list afterwards, and whether the loop breaks
DiffStep(pmap, entry, limit, ds) ==
    LET norm_key == Normalize(entry.key)
        csv_votes == entry.value
        pdf_votes == Get(pmap, norm_key)
    IN  IF norm_key \in NON_VOTE_ENTITIES \/ norm_key \in DiffSkip
        THEN [diffs |-> ds, stop |-> FALSE]
        ELSE IF pdf_votes = None
        THEN [diffs |-> ds, stop |-> FALSE]
        ELSE IF VotesDiffer(Val(pdf_votes), csv_votes)
        THEN LET ds2 == Append(ds, DiffEntry(norm_key, Val(pdf_votes), csv_votes))
             IN  [diffs |-> ds2, stop |-> Len(ds2) >= limit]
        ELSE [diffs |-> ds, stop |-> FALSE]

RECURSIVE CandidateDiffsFrom(_, _, _, _, _)
CandidateDiffsFrom(pmap, cmap, limit, n, ds) ==
    IF n > Len(cmap) THEN ds
    ELSE LET r == DiffStep(pmap, cmap[n], limit, ds)
         IN  IF r.stop THEN r.diffs
             ELSE CandidateDiffsFrom(pmap, cmap, limit, n + 1, r.diffs)

CandidateDiffs(pmap, cmap, limit) == CandidateDiffsFrom(pmap, cmap, limit, 1, <<>>)

\* Mutant: the text keys are intersected as written, not normalized
SelectCsvMap_RawKeys(pdf_entities, csv) ==
    IF csv.entidades_por_provincia = <<>> THEN csv.entidades
    ELSE IF Keys(pdf_entities) \cap Keys(csv.entidades_por_provincia) # {}
    THEN csv.entidades_por_provincia
    ELSE csv.entidades

SelectCsvMap(pdf_entities, csv) ==
    IF csv.entidades_por_provincia = <<>> THEN csv.entidades
    ELSE LET pdf_keys == {Normalize(k) : k \in Keys(pdf_entities)}
             provincia_keys == Keys(csv.entidades_por_provincia)
         IN  IF pdf_keys \cap provincia_keys # {}
             THEN csv.entidades_por_provincia
             ELSE csv.entidades

\* What a step of the function body leaves behind: the trace, and whether the
\* step returned through halt()
Continue(its) == ComparisonResult(its, FALSE, None)

HaltItem(message) == ComparisonItem("CONTROL", FALSE, None, None, message, None, FALSE)

\* Mutant: halt() returns the result without appending the failing item
Halt_NoItem(its, message) == ComparisonResult(its, TRUE, Some(message))

Halt(its, message) == ComparisonResult(Append(its, HaltItem(message)), TRUE, Some(message))

Separator == <<"========================================">>

Banner(phase, title) == <<"Fase ", ToString(phase), ": ", title>>

\* Mutant: the separator line is left out
AddPhaseHeader_BannerOnly(its, phase, title) ==
    Append(its, ComparisonItem("FASE", TRUE, None, None, Banner(phase, title), Some(phase), TRUE))

AddPhaseHeader(its, phase, title) ==
    its \o <<ComparisonItem("FASE", TRUE, None, None, Separator, Some(phase), TRUE),
             ComparisonItem("FASE", TRUE, None, None, Banner(phase, title), Some(phase), TRUE)>>

PhaseTitle(phase) ==
    CASE phase = 1 -> "Femenino y Masculino"
      [] phase = 2 -> "Totales por candidato/blanco/nulo"
      [] phase = 3 -> "Votos validos"
      [] phase = 4 -> "Invalidos (blancos + nulos)"
      [] phase = 5 -> "Total votos (validos + invalidos)"

DataItem(entidad, p, c, message) ==
    ComparisonItem(entidad, TRUE, Some(p), Some(c), message, None, FALSE)

skip_fm ==
    {Normalize("SUFRAGANTES"), Normalize("VOTOS VALIDOS"), Normalize("BLANCOS"),
     Normalize("NULOS")} \cup {Normalize(k) : k \in NON_VOTE_ENTITIES}

\* Mutant: phase 2 leaves out what phase 1 leaves out
skip_totals_AsPhase1 == skip_fm

skip_totals == {Normalize("VOTOS VALIDOS"), Normalize("SUFRAGANTES")}

\* Mutant: hombres of the text is compared with mujeres of the table
Phase1Entry_CrossFields(its, pmap, entry) ==
    LET key == entry.key
        csv_votes == entry.value
        pdf_votes == Get(pmap, Normalize(key))
    IN  IF Normalize(key) \in skip_fm THEN Continue(its)
        ELSE IF pdf_votes = None THEN Halt(its, MsgMissing1(key))
        ELSE IF Val(pdf_votes).hombres # csv_votes.mujeres
                \/ Val(pdf_votes).mujeres # csv_votes.mujeres
        THEN Halt(its, MsgDiffFM(key, Val(pdf_votes), csv_votes))
        ELSE Continue(Append(its, DataItem(key, Val(pdf_votes), csv_votes, MsgOkFM(key))))

\* Line 123 reads pdf_votes.hombres: AttributeError when the lookup found
\* nothing and line 120 did not return
Phase1Raises(pmap, entry) ==
    LET pdf_votes == Get(pmap, Normalize(entry.key))
    IN  Normalize(entry.key) \notin skip_fm /\ ~Falsy(pdf_votes) /\ pdf_votes = None

\* Mutant: phase 1 halts on a difference in total as well
Phase1Entry_TotalToo(its, pmap, entry) ==
    LET key == entry.key
        csv_votes == entry.value
        pdf_votes == Get(pmap, Normalize(key))
    IN  IF Normalize(key) \in skip_fm THEN Continue(its)
        ELSE IF pdf_votes = None THEN Halt(its, MsgMissing1(key))
        ELSE IF VotesDiffer(Val(pdf_votes), csv_votes)
        THEN Halt(its, MsgDiffFM(key, Val(pdf_votes), csv_votes))
        ELSE Continue(Append(its, DataItem(key, Val(pdf_votes), csv_votes, MsgOkFM(key))))

\* One iteration of the loop of phase 1 on the entry (key, csv_votes)
Phase1Entry(its, pmap, entry) ==
    LET key == entry.key
        csv_votes == entry.value
        pdf_votes == Get(pmap, Normalize(key))
    IN  IF Normalize(key) \in skip_fm THEN Continue(its)
        ELSE IF Falsy(pdf_votes) THEN Halt(its, MsgMissing1(key))
        ELSE IF Val(pdf_votes).hombres # csv_votes.hombres
                \/ Val(pdf_votes).mujeres # csv_votes.mujeres
        THEN Halt(its, MsgDiffFM(key, Val(pdf_votes), csv_votes))
        ELSE Continue(Append(its, DataItem(key, Val(pdf_votes), csv_votes, MsgOkFM(key))))

\* Line 155 reads pdf_votes.total: AttributeError when the lookup found nothing
\* and line 152 did not return
Phase2Raises(pmap, entry) ==
    LET norm_key == Normalize(entry.key)
        pdf_votes == Get(pmap, norm_key)
    IN  /\ norm_key \notin skip_totals
        /\ norm_key \notin NON_VOTE_ENTITIES
        /\ ~Falsy(pdf_votes)
        /\ pdf_votes = None

\* One iteration of the loop of phase 2
Phase2Entry(its, pmap, entry) ==
    LET key == entry.key
        csv_votes == entry.value
        norm_key == Normalize(key)
        pdf_votes == Get(pmap, norm_key)
    IN  IF norm_key \in skip_totals THEN Continue(its)
        ELSE IF norm_key \in NON_VOTE_ENTITIES THEN Continue(its)
        ELSE IF Falsy(pdf_votes) THEN Halt(its, MsgMissing2(key))
        ELSE IF Val(pdf_votes).total # csv_votes.total
        THEN Halt(its, MsgDiffTotal(key, Val(pdf_votes), csv_votes))
        ELSE Continue(Append(its, DataItem(key, Val(pdf_votes), csv_votes, MsgOkTotal(key))))

valid_key == Normalize("VOTOS VALIDOS")

\* Lines 181-183 read pdf_valid.total and csv_valid.total: AttributeError when
\* a lookup found nothing and line 177 did not return
Phase3ValidRaises(pmap, cmap) ==
    LET pv == Get(pmap, valid_key)
        cv == Get(cmap, valid_key)
    IN  ~(Falsy(pv) \/ Falsy(cv)) /\ (pv = None \/ cv = None)

\* Mutant: only the text side of VOTOS VALIDOS must exist; a selected map
\* without the key passes the check
Phase3Valid_TextOnly(its, pmap, cmap) ==
    LET pv == Get(pmap, valid_key)
        cv == Get(cmap, valid_key)
    IN  IF Falsy(pv) THEN Halt(its, MsgMissing3("VOTOS VALIDOS"))
        ELSE IF cv = None THEN Continue(its)
        ELSE IF VotesDiffer(Val(pv), Val(cv))
        THEN Halt(its, MsgDiff3("VOTOS VALIDOS", Val(pv), Val(cv))
                         \o Hint(CandidateDiffs(pmap, cmap, DiffLimit)))
        ELSE Continue(Append(its, DataItem("VOTOS VALIDOS", Val(pv), Val(cv),
                                           MsgOk3("VOTOS VALIDOS"))))

\* Phase 3 up to the VOTOS VALIDOS success item
Phase3Valid(its, pmap, cmap) ==
    LET pv == Get(pmap, valid_key)
        cv == Get(cmap, valid_key)
    IN  IF Falsy(pv) \/ Falsy(cv) THEN Halt(its, MsgMissing3("VOTOS VALIDOS"))
        ELSE IF VotesDiffer(Val(pv), Val(cv))
        THEN Halt(its, MsgDiff3("VOTOS VALIDOS", Val(pv), Val(cv))
                         \o Hint(CandidateDiffs(pmap, cmap, DiffLimit)))
        ELSE Continue(Append(its, DataItem("VOTOS VALIDOS", Val(pv), Val(cv),
                                           MsgOk3("VOTOS VALIDOS"))))

\* Mutant: NULOS is checked before BLANCOS
Labels_NulosFirst == <<"NULOS", "BLANCOS">>

Labels == <<"BLANCOS", "NULOS">>

\* Lines 214-216 read pdf_item.total and csv_item.total: AttributeError when a
\* lookup found nothing and line 211 did not return
Phase3LabelRaises(pmap, cmap, label) ==
    LET pdf_item == Get(pmap, label)
        csv_item == Get(cmap, label)
    IN  ~(Falsy(pdf_item) \/ Falsy(csv_item)) /\ (pdf_item = None \/ csv_item = None)

\* Mutant: the labels are compared in total and hombres only
Phase3Label_NoMujeres(its, pmap, cmap, label) ==
    LET pdf_item == Get(pmap, label)
        csv_item == Get(cmap, label)
    IN  IF pdf_item = None \/ csv_item = None THEN Halt(its, MsgMissing3(label))
        ELSE IF Val(pdf_item).total # Val(csv_item).total
                \/ Val(pdf_item).hombres # Val(csv_item).hombres
        THEN Halt(its, MsgDiff3(label, Val(pdf_item), Val(csv_item)))
        ELSE Continue(Append(its, DataItem(label, Val(pdf_item), Val(csv_item), MsgOk3(label))))

\* One iteration of the loop over ("BLANCOS", "NULOS") of phase 3
Phase3Label(its, pmap, cmap, label) ==
    LET pdf_item == Get(pmap, label)
        csv_item == Get(cmap, label)
    IN  IF Falsy(pdf_item) \/ Falsy(csv_item) THEN Halt(its, MsgMissing3(label))
        ELSE IF VotesDiffer(Val(pdf_item), Val(csv_item))
        THEN Halt(its, MsgDiff3(label, Val(pdf_item), Val(csv_item)))
        ELSE Continue(Append(its, DataItem(label, Val(pdf_item), Val(csv_item), MsgOk3(label))))

invalid_keys == {"BLANCOS", "NULOS"}

RECURSIVE SumOver(_, _, _)
\* sum(m[key].<field> for key in keys), field by field
SumOver(m, keys, acc) ==
    IF keys = {} THEN acc
    ELSE LET k == CHOOSE x \in keys : TRUE
             v == Val(Get(m, k))
         IN  SumOver(m, keys \ {k},
                     [total |-> acc.total + v.total, hombres |-> acc.hombres + v.hombres,
                      mujeres |-> acc.mujeres + v.mujeres])

\* Mutant: only BLANCOS is summed
InvalidSum_BlancosOnly(m) ==
    SumOver(m, {"BLANCOS"}, [total |-> 0, hombres |-> 0, mujeres |-> 0])

InvalidSum(m) == SumOver(m, invalid_keys, [total |-> 0, hombres |-> 0, mujeres |-> 0])

AsEntity(name, t) == EntityVotes(name, t.total, t.hombres, t.mujeres)

\* Line 237
MissingInvalid(pmap, cmap) ==
    {k \in invalid_keys : k \notin Keys(cmap) \/ k \notin Keys(pmap)}

\* Lines 241-247 subscript pdf_map[key] and csv_map[key]: KeyError when a key
\* is absent and line 238 did not return
Phase4Raises(pmap, cmap) ==
    /\ MissingInvalid(pmap, cmap) = {}
    /\ \E k \in invalid_keys : k \notin Keys(pmap) \/ k \notin Keys(cmap)

\* Phase 4 after its header
Phase4(its, pmap, cmap) ==
    LET missing_invalid == MissingInvalid(pmap, cmap)
    IN  IF missing_invalid # {} THEN Halt(its, MsgMissing4)
        ELSE IF InvalidSum(pmap) # InvalidSum(cmap)
        THEN Halt(its, MsgDiff3("INVALIDOS (BLANCOS+NULOS)", InvalidSum(pmap), InvalidSum(cmap)))
        ELSE Continue(Append(its, DataItem("INVALIDOS", AsEntity("INVALIDOS", InvalidSum(pmap)),
                                           AsEntity("INVALIDOS", InvalidSum(cmap)),
                                           MsgOk3("INVALIDOS"))))

\* total_pdf, total_csv of phase 5
TotalVotos(valid, invalid) ==
    EntityVotes("TOTAL VOTOS", valid.total + invalid.total,
                valid.hombres + invalid.hombres, valid.mujeres + invalid.mujeres)

\* Mutant: the success item of phase 5 is not appended
Phase5_NoItem(its, pv, pinv, cv, cinv) ==
    IF VotesDiffer(TotalVotos(pv, pinv), TotalVotos(cv, cinv))
    THEN Halt(its, MsgDiff3("TOTAL VOTOS", TotalVotos(pv, pinv), TotalVotos(cv, cinv)))
    ELSE Continue(its)

\* Lines 270-278 read pdf_valid.total and csv_valid.total of phase 3
Phase5Raises(pv, cv) == pv = None \/ cv = None

\* Phase 5 after its header
Phase5(its, pv, pinv, cv, cinv) ==
    LET total_pdf == TotalVotos(pv, pinv)
        total_csv == TotalVotos(cv, cinv)
    IN  IF VotesDiffer(total_pdf, total_csv)
        THEN Halt(its, MsgDiff3("TOTAL VOTOS", total_pdf, total_csv))
        ELSE Continue(Append(its, DataItem("TOTAL VOTOS", total_pdf, total_csv,
                                           MsgOk3("TOTAL VOTOS"))))

----------------------------------------------------------------------------
(* Inputs of compare_results: the tally of the reference scenario (entity A
   with VOTOS VALIDOS, BLANCOS and NULOS, equal on both sides), changed on at
   most MaxDeviations names. *)

MaxDeviations == 2

NatOrder == <<"A", "B", "BLANCOS", "ELECTORES", "NULOS", "SUFRAGANTES", "VOTOS VALIDOS">>

SubOrder == <<"P - A", "P - B">>

AllKeys == {NatOrder[n] : n \in DOMAIN NatOrder} \cup {SubOrder[n] : n \in DOMAIN SubOrder}

Ref(k) ==
    CASE k = "A" -> EntityVotes(k, 100, 60, 40)
      [] k = "VOTOS VALIDOS" -> EntityVotes(k, 100, 60, 40)
      [] k = "BLANCOS" -> EntityVotes(k, 5, 3, 2)
      [] k = "NULOS" -> EntityVotes(k, 3, 2, 1)
      [] k = "B" -> EntityVotes(k, 50, 30, 20)
      [] k = "ELECTORES" -> EntityVotes(k, 200, 90, 110)
      [] k = "SUFRAGANTES" -> EntityVotes(k, 158, 95, 63)
      [] k = "P - A" -> EntityVotes(k, 70, 40, 30)
      [] k = "P - B" -> EntityVotes(k, 30, 20, 10)

\* How a name stands in the two sources: in both with equal values, missing from
\* the text, from the table or from both, spelled unnormalized in the text, or
\* with hombres, mujeres or total one higher in the table
Statuses == {"ok", "noText", "noTable", "noBoth", "raw", "dH", "dM", "dT"}

Default(k) == IF k \in {"A", "VOTOS VALIDOS", "BLANCOS", "NULOS"} THEN "ok" ELSE "noBoth"

Raw(k) == (CHOOSE s \in Spellings : s[2] = k)[1]

InText(st) == st \notin {"noText", "noBoth"}

InTable(st) == st \notin {"noTable", "noBoth"}

TextEntry(k, st) == [key |-> IF st = "raw" THEN Raw(k) ELSE k, value |-> Ref(k)]

TableEntry(k, st) ==
    [key |-> k,
     value |-> EntityVotes(k, Ref(k).total + (IF st = "dT" THEN 1 ELSE 0),
                           Ref(k).hombres + (IF st = "dH" THEN 1 ELSE 0),
                           Ref(k).mujeres + (IF st = "dM" THEN 1 ELSE 0))]

Reverse(s) == [n \in 1..Len(s) |-> s[Len(s) + 1 - n]]

TextMap(status) ==
    LET ks == SelectSeq(NatOrder \o SubOrder, LAMBDA k : InText(status[k]))
    IN  [n \in 1..Len(ks) |-> TextEntry(ks[n], status[ks[n]])]

TableMap(order, status) ==
    LET ks == SelectSeq(order, LAMBDA k : InTable(status[k]))
    IN  [n \in 1..Len(ks) |-> TableEntry(ks[n], status[ks[n]])]

StatusMaps ==
    UNION {{[k \in AllKeys |-> IF k \in D THEN f[k] ELSE Default(k)] :
               f \in {g \in [D -> Statuses] : \A k \in D : g[k] # Default(k)}} :
           D \in {E \in SUBSET AllKeys : Cardinality(E) <= MaxDeviations}}

Deviations(status) == Cardinality({k \in AllKeys : status[k] # Default(k)})

\* The inputs with an empty map: no entity in the text, none in the table, none
\* in either
EmptyCases ==
    {[k \in AllKeys |-> IF Default(k) = "ok" THEN st ELSE "noBoth"] :
        st \in {"noText", "noTable", "noBoth"}}

\* _candidate_diffs is not running on its own
IdleDf ==
    /\ d_pdf_map = <<>>
    /\ d_csv_map = <<>>
    /\ d_i = 0
    /\ d_diffs = <<>>
    /\ d_pc = "idle"
    /\ d_hint = None

\* No validation was started from the window
IdleUi ==
    /\ u_pc = "idle"
    /\ u_box = <<>>

\* load_csv is not running
IdleCsv ==
    /\ c_table = None
    /\ c_vuelta = 0
    /\ c_pc = "idle"
    /\ c_df = <<>>
    /\ c_entidades = <<>>
    /\ c_provincia = <<>>
    /\ c_out = None
    /\ c_error = None

\* parse_pdf is not running
IdlePdf ==
    /\ p_doc = None
    /\ p_lines = <<>>
    /\ p_pc = "idle"
    /\ p_i = 0
    /\ p_vuelta = None
    /\ p_entidades = <<>>
    /\ p_out = None
    /\ p_error = None

InitCmp ==
    /\ \E status \in StatusMaps \cup EmptyCases, rev \in BOOLEAN :
          /\ \/ Deviations(status) + (IF rev THEN 1 ELSE 0) <= MaxDeviations
             \/ status \in EmptyCases /\ ~rev
          /\ pdf_result = PdfParseResult(1, TextMap(status))
          /\ csv_result =
                CsvLoadResult(1,
                    TableMap(IF rev THEN Reverse(NatOrder) ELSE NatOrder, status),
                    TableMap(IF rev THEN Reverse(SubOrder) ELSE SubOrder, status))
    /\ csv_map = <<>>
    /\ pdf_map = <<>>
    /\ items = <<>>
    /\ pc = "start"
    /\ i = 0
    /\ pdf_valid = None
    /\ csv_valid = None
    /\ pdf_invalid = None
    /\ csv_invalid = None
    /\ diffs = None
    /\ result = None
    /\ IdleDf
    /\ IdlePdf
    /\ IdleCsv
    /\ IdleUi

----------------------------------------------------------------------------
(* compare_results, step by step *)

\* The step left the trace r.items; if it returned through halt(), r is the result
Proceed(r, next_pc) ==
    /\ items' = r.items
    /\ IF r.halted
       THEN pc' = "halted" /\ result' = Some(r)
       ELSE pc' = next_pc /\ result' = result

\* The step raised: the exception leaves compare_results, nothing is returned
Raise ==
    /\ pc' = "raised"
    /\ UNCHANGED <<items, result>>

\* Lines 77-81: granularity selection and the normalized text map
Start ==
    /\ pc = "start"
    /\ csv_map' = SelectCsvMap(pdf_result.entidades, csv_result)
    /\ pdf_map' = NormalizeMap(pdf_result.entidades)
    /\ pc' = "h1"
    /\ UNCHANGED <<pdf_result, csv_result, items, i, pdf_valid, csv_valid,
                   pdf_invalid, csv_invalid, diffs, result>>
    /\ UNCHANGED nonCmpVars

\* The code is about to call add_phase_header(p, ...)
AtHeader(p) ==
    CASE p = 1 -> pc = "h1"
      [] p = 2 -> pc = "p1" /\ i > Len(csv_map)
      [] p = 3 -> pc = "p2" /\ i > Len(csv_map)
      [] p = 4 -> pc = "p3_labels" /\ i > Len(Labels)
      [] p = 5 -> pc = "h5"

BodyPc(p) ==
    CASE p = 1 -> "p1" [] p = 2 -> "p2" [] p = 3 -> "p3_valid" [] p = 4 -> "p4" [] p = 5 -> "p5"

EnterPhase ==
    \E p \in 1..5 :
        /\ AtHeader(p)
        /\ items' = AddPhaseHeader(items, p, PhaseTitle(p))
        /\ pc' = BodyPc(p)
        /\ i' = 1
        /\ UNCHANGED <<pdf_result, csv_result, csv_map, pdf_map, pdf_valid, csv_valid,
                       pdf_invalid, csv_invalid, diffs, result>>
        /\ UNCHANGED nonCmpVars

Phase1Iter ==
    /\ pc = "p1"
    /\ i <= Len(csv_map)
    /\ IF Phase1Raises(pdf_map, csv_map[i]) THEN Raise
       ELSE Proceed(Phase1Entry(items, pdf_map, csv_map[i]), "p1")
    /\ i' = i + 1
    /\ UNCHANGED <<pdf_result, csv_result, csv_map, pdf_map, pdf_valid, csv_valid,
                   pdf_invalid, csv_invalid, diffs>>
    /\ UNCHANGED nonCmpVars

Phase2Iter ==
    /\ pc = "p2"
    /\ i <= Len(csv_map)
    /\ IF Phase2Raises(pdf_map, csv_map[i]) THEN Raise
       ELSE Proceed(Phase2Entry(items, pdf_map, csv_map[i]), "p2")
    /\ i' = i + 1
    /\ UNCHANGED <<pdf_result, csv_result, csv_map, pdf_map, pdf_valid, csv_valid,
                   pdf_invalid, csv_invalid, diffs>>
    /\ UNCHANGED nonCmpVars

Phase3ValidStep ==
    /\ pc = "p3_valid"
    /\ pdf_valid' = Get(pdf_map, valid_key)
    /\ csv_valid' = Get(csv_map, valid_key)
    /\ diffs' = IF pdf_valid' # None /\ csv_valid' # None
                   /\ VotesDiffer(Val(pdf_valid'), Val(csv_valid'))
                THEN Some(CandidateDiffs(pdf_map, csv_map, DiffLimit))
                ELSE diffs
    /\ IF Phase3ValidRaises(pdf_map, csv_map) THEN Raise
       ELSE Proceed(Phase3Valid(items, pdf_map, csv_map), "p3_labels")
    /\ i' = 1
    /\ UNCHANGED <<pdf_result, csv_result, csv_map, pdf_map, pdf_invalid, csv_invalid>>
    /\ UNCHANGED nonCmpVars

Phase3LabelIter ==
    /\ pc = "p3_labels"
    /\ i <= Len(Labels)
    /\ IF Phase3LabelRaises(pdf_map, csv_map, Labels[i]) THEN Raise
       ELSE Proceed(Phase3Label(items, pdf_map, csv_map, Labels[i]), "p3_labels")
    /\ i' = i + 1
    /\ UNCHANGED <<pdf_result, csv_result, csv_map, pdf_map, pdf_valid, csv_valid,
                   pdf_invalid, csv_invalid, diffs>>
    /\ UNCHANGED nonCmpVars

Phase4Step ==
    /\ pc = "p4"
    /\ LET r == Phase4(items, pdf_map, csv_map)
       IN  /\ IF Phase4Raises(pdf_map, csv_map) THEN Raise ELSE Proceed(r, "h5")
           /\ IF invalid_keys \subseteq Keys(pdf_map) \cap Keys(csv_map)
              THEN pdf_invalid' = Some(InvalidSum(pdf_map))
                   /\ csv_invalid' = Some(InvalidSum(csv_map))
              ELSE UNCHANGED <<pdf_invalid, csv_invalid>>
    /\ UNCHANGED <<pdf_result, csv_result, csv_map, pdf_map, i, pdf_valid, csv_valid, diffs>>
    /\ UNCHANGED nonCmpVars

\* Phase 5 and the return of line 301
Phase5Step ==
    /\ pc = "p5"
    /\ LET r == Phase5(items, Val(pdf_valid), Val(pdf_invalid), Val(csv_valid),
                       Val(csv_invalid))
       IN  IF Phase5Raises(pdf_valid, csv_valid) THEN Raise
           ELSE /\ items' = r.items
                /\ result' = Some(r)
                /\ pc' = IF r.halted THEN "halted" ELSE "done"
    /\ UNCHANGED <<pdf_result, csv_result, csv_map, pdf_map, i, pdf_valid, csv_valid,
                   pdf_invalid, csv_invalid, diffs>>
    /\ UNCHANGED nonCmpVars

NextCmp ==
    \/ Start
    \/ EnterPhase
    \/ Phase1Iter
    \/ Phase2Iter
    \/ Phase3ValidStep
    \/ Phase3LabelIter
    \/ Phase4Step
    \/ Phase5Step

Spec == InitCmp /\ [][NextCmp]_vars

----------------------------------------------------------------------------
(* Properties of compare_results *)

Returned == result # None

Res == Val(result)

Last(s) == s[Len(s)]

Pieces(message) == {message[n] : n \in DOMAIN message}

\* The two maps hold the same names with the same total, hombres and mujeres
Agree(m1, m2) ==
    /\ Keys(m1) = Keys(m2)
    /\ \A k \in Keys(m1) : ~VotesDiffer(Val(Get(m1, k)), Val(Get(m2, k)))

TextNormalized == NormalizeMap(pdf_result.entidades)

\* The text reports exactly the entities of the table, at the national
\* granularity and (when the table has one) at the subdivision granularity too
SourcesIdentical ==
    /\ Keys(TextNormalized) =
           Keys(csv_result.entidades) \cup Keys(csv_result.entidades_por_provincia)
    /\ \A k \in Keys(csv_result.entidades) :
           ~VotesDiffer(Val(Get(TextNormalized, k)), Val(Get(csv_result.entidades, k)))
    /\ \A k \in Keys(csv_result.entidades_por_provincia) :
           ~VotesDiffer(Val(Get(TextNormalized, k)),
                        Val(Get(csv_result.entidades_por_provincia, k)))

HeaderPhasesOf(its) == {Val(its[n].phase) : n \in {m \in DOMAIN its : its[m].is_header}}

CleanPass ==
    /\ ~Res.halted
    /\ HeaderPhasesOf(Res.items) = 1..5
    /\ \A n \in DOMAIN Res.items : Res.items[n].ok

\* C1 as stated: identical sources always give a result that is not halted,
\* with the headers of all five phases and no item with ok = false.
C1_AsStated == (Returned /\ SourcesIdentical) => CleanPass

\* C1 (amended): when the text map and the national map hold the same entities
\* with the same total/hombres/mujeres, VOTOS VALIDOS, BLANCOS and NULOS are
\* among them, and the subdivision map is empty or shares no key with the text
\* entities, the result is not halted, the trace has the headers of all five
\* phases and no item has ok = false.
C1_IdenticalSourcesPass ==
    (/\ Returned
     /\ Agree(TextNormalized, csv_result.entidades)
     /\ {"VOTOS VALIDOS", "BLANCOS", "NULOS"} \subseteq Keys(csv_result.entidades)
     /\ Keys(TextNormalized) \cap Keys(csv_result.entidades_por_provincia) = {})
    => CleanPass

C1_Witness ==
    /\ pc = "done"
    /\ Agree(TextNormalized, csv_result.entidades)
    /\ "B" \in Keys(csv_result.entidades)
    /\ csv_result.entidades_por_provincia # <<>>

\* The entities phase 1 leaves out
Phase1Excluded == {"SUFRAGANTES", "VOTOS VALIDOS", "BLANCOS", "NULOS"} \cup NON_VOTE_ENTITIES

\* Positions of the selected map that phase 1 examines
P1Examined == {n \in DOMAIN csv_map : Normalize(csv_map[n].key) \notin Phase1Excluded}

P1Missing(n) == Get(pdf_map, Normalize(csv_map[n].key)) = None

P1Text(n) == Val(Get(pdf_map, Normalize(csv_map[n].key)))

P1Mismatch(n) ==
    /\ ~P1Missing(n)
    /\ \/ P1Text(n).hombres # csv_map[n].value.hombres
       \/ P1Text(n).mujeres # csv_map[n].value.mujeres

\* Phase 1 gets as far as position n and finds a hombres/mujeres difference there
P1Finds(n) ==
    /\ n \in P1Examined
    /\ P1Mismatch(n)
    /\ \A m \in P1Examined : m < n => ~P1Missing(m) /\ ~P1Mismatch(m)

FailedItems(its) == {n \in DOMAIN its : ~its[n].ok}

\* C2: when phase 1 finds an entity whose hombres or mujeres differ, the run
\* never leaves phase 1 and the result is halted with exactly one item with
\* ok = false, which names the entity; no header of phases 2..5 is in the trace,
\* and halt_reason shows the differing values of both sides.
C2_Phase1MismatchHalts ==
    \A n \in DOMAIN csv_map :
        (pc # "start" /\ P1Finds(n)) =>
            /\ pc \in {"h1", "p1", "halted"}
            /\ Returned =>
                /\ Res.halted
                /\ Cardinality(FailedItems(Res.items)) = 1
                /\ \A f \in FailedItems(Res.items) : csv_map[n].key \in Pieces(Res.items[f].message)
                /\ HeaderPhasesOf(Res.items) \cap (2..5) = {}
                /\ P1Text(n).hombres # csv_map[n].value.hombres =>
                       {ToString(P1Text(n).hombres), ToString(csv_map[n].value.hombres)}
                           \subseteq Pieces(Val(Res.halt_reason))
                /\ P1Text(n).mujeres # csv_map[n].value.mujeres =>
                       {ToString(P1Text(n).mujeres), ToString(csv_map[n].value.mujeres)}
                           \subseteq Pieces(Val(Res.halt_reason))

\* Text H=60 against table H=61 on entity A, in a table that also holds B
C2_Witness ==
    /\ Returned
    /\ \E n \in DOMAIN csv_map :
          /\ P1Finds(n)
          /\ csv_map[n].key = "A"
          /\ P1Text(n).hombres = 60
          /\ csv_map[n].value.hombres = 61
    /\ "B" \in Keys(csv_map)

\* C3: in a halted result the failing item is the last item of the trace, it
\* is the only item with ok = false, its message is halt_reason, and the trace
\* the result holds is the trace as it stands: nothing was appended after it.
C3_HaltTruncates ==
    (Returned /\ Res.halted) =>
        /\ Res.items = items
        /\ items # <<>>
        /\ FailedItems(items) = {Len(items)}
        /\ Res.halt_reason = Some(Last(items).message)
        /\ ~Last(items).is_header
        /\ pc = "halted"

C3_Witness == Returned /\ Res.halted /\ Len(items) > 6

\* C4: a result has halted = false exactly when the run passed the end of
\* phase 5; then halt_reason is absent, every item has ok = true and the last
\* item is the TOTAL VOTOS success item. A halted result has a halt_reason.
C4_NotHaltedIffPhase5Passed ==
    Returned =>
        /\ ~Res.halted <=> pc = "done"
        /\ ~Res.halted <=> (\E n \in DOMAIN items : items[n].entidad = "TOTAL VOTOS")
        /\ ~Res.halted =>
              /\ Res.halt_reason = None
              /\ \A n \in DOMAIN Res.items : Res.items[n].ok
              /\ Last(Res.items).entidad = "TOTAL VOTOS"
              /\ Last(Res.items).message = MsgOk3("TOTAL VOTOS")
              /\ 5 \in HeaderPhasesOf(Res.items)
        /\ Res.halted => Res.halt_reason # None

C4_Witness == Returned /\ ~Res.halted

\* How many phases the code has entered at each position of the function body
PhasesEntered(at) ==
    CASE at \in {"start", "h1"} -> 0
      [] at = "p1" -> 1
      [] at = "p2" -> 2
      [] at \in {"p3_valid", "p3_labels"} -> 3
      [] at \in {"p4", "h5"} -> 4
      [] at \in {"p5", "done"} -> 5

\* The phase a data or halt item belongs to, read off its message
MsgPhase(message) ==
    IF Len(message) = 1 THEN 4
    ELSE IF message[3] \in {": No existe en el PDF (fase 1: F/M).", ": Discrepancia en F/M. ",
                            ": F/M coinciden."} THEN 1
    ELSE IF message[3] \in {": No existe en el PDF (fase 2: Totales).",
                            ": Discrepancia en Total. ", ": Total coincide."} THEN 2
    ELSE IF message[2] \in {"VOTOS VALIDOS", "BLANCOS", "NULOS"} THEN 3
    ELSE IF message[2] \in {"INVALIDOS", "INVALIDOS (BLANCOS+NULOS)"} THEN 4
    ELSE 5

HeaderItems(its) == SelectSeq(its, LAMBDA it : it.is_header)

\* The number of the last header at or before position n, 0 when there is none
RECURSIVE PhaseAt(_, _)
PhaseAt(its, n) ==
    IF n = 0 THEN 0
    ELSE IF its[n].is_header THEN Val(its[n].phase)
    ELSE PhaseAt(its, n - 1)

\* C5: the headers of the trace are, in order, a separator and a titled banner
\* for each of the phases 1..k entered so far, both with that phase number, the
\* banner right after the separator; every data or halt item comes after the
\* two headers of its own phase, also when it is a halt item right after them.
C5_TwoHeadersPerPhase ==
    LET hs == HeaderItems(items)
        k == Len(hs) \div 2
    IN  /\ Len(hs) = 2 * k
        /\ k \in 0..5
        /\ pc # "halted" => k = PhasesEntered(pc)
        /\ pc = "halted" => k >= 1
        /\ \A p \in 1..k :
              /\ hs[2 * p - 1].phase = Some(p)
              /\ hs[2 * p].phase = Some(p)
              /\ hs[2 * p - 1].message = Separator
              /\ hs[2 * p].message = Banner(p, PhaseTitle(p))
        /\ \A n \in DOMAIN items :
              /\ (items[n].is_header /\ items[n].message = Separator) =>
                    /\ n < Len(items)
                    /\ items[n + 1].is_header
                    /\ items[n + 1].message # Separator
              /\ items[n].is_header => items[n].ok /\ items[n].pdf = None /\ items[n].csv = None
              /\ ~items[n].is_header =>
                    /\ items[n].phase = None
                    /\ PhaseAt(items, n) = MsgPhase(items[n].message)

\* A phase later than the first halts right after its two headers
C5_Witness ==
    /\ pc = "halted"
    /\ Len(items) >= 7
    /\ items[Len(items) - 1].is_header
    /\ ~Last(items).ok

\* C6: the national map is used when the subdivision map is empty; a non-empty
\* subdivision map is used exactly when some normalized text key is one of its
\* keys, and the national map otherwise.
C6_GranularitySelection ==
    pc # "start" =>
        LET nat == csv_result.entidades
            sub == csv_result.entidades_por_provincia
            shared == \E e \in Keys(pdf_result.entidades) : \E n \in DOMAIN sub :
                          Normalize(e) = sub[n].key
        IN  /\ sub = <<>> => csv_map = nat
            /\ (sub # <<>> /\ shared) => csv_map = sub /\ csv_map # nat
            /\ (sub # <<>> /\ ~shared) => csv_map = nat /\ csv_map # sub

\* A non-empty subdivision map that shares no key with the text: national map
C6_Witness ==
    /\ pc # "start"
    /\ csv_result.entidades_por_provincia # <<>>
    /\ csv_map = csv_result.entidades
    /\ \E e \in Keys(pdf_result.entidades) : Normalize(e) \in {"P - A", "P - B"}

\* VOTOS VALIDOS + BLANCOS + NULOS of the map m, field by field
GrandTotal(m) ==
    LET v == Val(Get(m, "VOTOS VALIDOS"))
        b == Val(Get(m, "BLANCOS"))
        u == Val(Get(m, "NULOS"))
    IN  EntityVotes("TOTAL VOTOS", v.total + b.total + u.total,
                    v.hombres + b.hombres + u.hombres, v.mujeres + b.mujeres + u.mujeres)

\* The inputs of the worked example: A, VOTOS VALIDOS, BLANCOS and NULOS alone
ExampleInputs ==
    /\ Agree(TextNormalized, csv_result.entidades)
    /\ Keys(TextNormalized) = {"A", "VOTOS VALIDOS", "BLANCOS", "NULOS"}
    /\ Val(Get(TextNormalized, "A")) = EntityVotes("A", 100, 60, 40)
    /\ Val(Get(TextNormalized, "VOTOS VALIDOS")) = EntityVotes("VOTOS VALIDOS", 100, 60, 40)
    /\ Val(Get(TextNormalized, "BLANCOS")) = EntityVotes("BLANCOS", 5, 3, 2)
    /\ Val(Get(TextNormalized, "NULOS")) = EntityVotes("NULOS", 3, 2, 1)
    /\ csv_result.entidades_por_provincia = <<>>

\* C7: the TOTAL VOTOS item of phase 5 holds, for each source, the field-wise
\* sum VOTOS VALIDOS + BLANCOS + NULOS of that source's map; on the inputs of
\* the worked example the run passes all five phases with (108, 65, 43) on both
\* sides.
C7_GrandTotal ==
    /\ pc \in {"p5", "done"} =>
          /\ TotalVotos(Val(pdf_valid), Val(pdf_invalid)) = GrandTotal(pdf_map)
          /\ TotalVotos(Val(csv_valid), Val(csv_invalid)) = GrandTotal(csv_map)
    /\ pc = "done" =>
          /\ Last(items).pdf = Some(GrandTotal(pdf_map))
          /\ Last(items).csv = Some(GrandTotal(csv_map))
    /\ (Returned /\ ExampleInputs) =>
          /\ pc = "done"
          /\ HeaderPhasesOf(items) = 1..5
          /\ Last(items).pdf = Some(EntityVotes("TOTAL VOTOS", 108, 65, 43))
          /\ Last(items).csv = Some(EntityVotes("TOTAL VOTOS", 108, 65, 43))

C7_Witness == pc = "done" /\ ExampleInputs

\* No step of compare_results raises, and where the body ended there is a
\* returned result holding the trace; a halted one has a reason and its trace
\* ends in the failing item after at least the two headers of phase 1
NeverRaises ==
    /\ pc # "raised"
    /\ pc \in {"done", "halted"} <=> Returned
    /\ Returned =>
          /\ Res.items = items
          /\ Res.halted <=> pc = "halted"
          /\ Res.halted =>
                /\ Res.halt_reason = Some(Last(items).message)
                /\ Len(items) >= 3
                /\ ~Last(items).ok

\* The positions of the function body in the order the code reaches them
BodyOrder(at) ==
    CASE at = "start" -> 0
      [] at = "h1" -> 1
      [] at = "p1" -> 2
      [] at = "p2" -> 3
      [] at = "p3_valid" -> 4
      [] at = "p3_labels" -> 5
      [] at \in {"p4", "h5"} -> 6
      [] at = "p5" -> 7
      [] at \in {"done", "halted"} -> 8
      [] OTHER -> 0

\* How far the run has come: the position in the body, then the loop index
Progress == <<BodyOrder(pc), IF pc \in {"p4", "h5"} THEN (IF pc = "h5" THEN 1 ELSE 0) ELSE i>>

\* The longest loop a run goes through
LoopBound == Len(csv_result.entidades) + Len(csv_result.entidades_por_provincia) + 3

\* C11: on every pair of inputs, maps missing VOTOS VALIDOS, BLANCOS or NULOS
\* and empty maps included, compare_results never raises and terminates by
\* returning a ComparisonResult: where the body has not returned it can take a
\* step, every step moves forward in the body or in a loop whose index stays
\* within the length of its map, and a data problem ends in a halted result
\* with its trace.
C11_ReturnsWithoutRaising ==
    /\ [](NeverRaises /\ (~Returned => ENABLED NextCmp) /\ i <= LoopBound)
    /\ [][\/ Progress'[1] > Progress[1]
          \/ Progress'[1] = Progress[1] /\ Progress'[2] > Progress[2]]_vars

\* The run halted on a lookup that found nothing: an empty table map, or a
\* table without BLANCOS
C11_Witness ==
    /\ Returned
    /\ Res.halted
    /\ \/ csv_map = <<>> /\ pdf_map # <<>>
       \/ pdf_map = <<>> /\ csv_map # <<>>

\* The phase whose headers are the last in the trace, 0 before phase 1
CurrentPhase == PhaseAt(items, Len(items))

\* The positions of the selected map the loop of phase 2 has been through (the
\* index has moved past the entry a halt happened on)
P2Done ==
    IF CurrentPhase < 2 THEN {}
    ELSE IF CurrentPhase = 2 THEN {n \in DOMAIN csv_map : n < i}
    ELSE DOMAIN csv_map

\* The items with the given message that phase 2 has put into the trace
P2Items(message) ==
    {m \in DOMAIN items :
        /\ PhaseAt(items, m) = 2
        /\ ~items[m].is_header
        /\ items[m].message = message}

P2Fails(n) ==
    \/ P1Missing(n)
    \/ P1Text(n).total # csv_map[n].value.total

\* Phase 2 with the exclusion set X: an entity outside X that the loop has been
\* through either failed, and then the run halted on it in phase 2 and it has
\* no success item, or it has exactly one success item; an entity in X has
\* neither
Phase2Rule(X) ==
    \A n \in P2Done :
        LET key == csv_map[n].key
            halts == IF P1Missing(n) THEN P2Items(MsgMissing2(key))
                     ELSE P2Items(MsgMissing2(key))
                              \cup P2Items(MsgDiffTotal(key, P1Text(n), csv_map[n].value))
            successes == P2Items(MsgOkTotal(key))
        IN  IF Normalize(key) \in X
            THEN /\ successes = {}
                 /\ halts = {}
            ELSE IF P2Fails(n)
            THEN /\ successes = {}
                 /\ halts = {Len(items)}
                 /\ pc = "halted"
                 /\ n = i - 1
            ELSE /\ Cardinality(successes) = 1
                 /\ halts = {}

P1Failing == {n \in P1Examined : P1Missing(n) \/ P1Mismatch(n)}

\* The first of them in the iteration order, past the end when there is none
P1First ==
    IF P1Failing = {} THEN Len(csv_map) + 1
    ELSE CHOOSE n \in P1Failing : \A m \in P1Failing : n <= m

\* The positions phase 1 examines, in iteration order, up to position upto
P1Walk(upto) ==
    SelectSeq([n \in 1..Len(csv_map) |-> n], LAMBDA n : n \in P1Examined /\ n <= upto)

\* The data and halt items of phase 1 in the trace, in order
P1Trace ==
    LET at == SelectSeq([n \in 1..Len(items) |-> n],
                        LAMBDA n : PhaseAt(items, n) = 1 /\ ~items[n].is_header)
    IN  [k \in 1..Len(at) |-> items[at[k]]]

\* How far the loop of phase 1 has come
P1Upto == IF CurrentPhase = 1 THEN i - 1 ELSE Len(csv_map)

\* C15: phase 1 walks the selected map in its iteration order, leaving out the
\* exclusion set, and halts at the first entity that is missing from the text
\* or differs in hombres or mujeres: the entities examined before it have one
\* success item each, in that order, the failing item follows and nothing else
\* does; a difference in total alone never halts phase 1.
C15_Phase1FirstFailure ==
    CurrentPhase >= 1 =>
        LET walked == P1Walk(IF P1First <= P1Upto THEN P1First - 1 ELSE P1Upto)
            failed == P1First <= P1Upto
        IN  /\ Len(P1Trace) = Len(walked) + (IF failed THEN 1 ELSE 0)
            /\ \A k \in DOMAIN walked :
                  /\ P1Trace[k].ok
                  /\ P1Trace[k].entidad = csv_map[walked[k]].key
                  /\ P1Trace[k].message = MsgOkFM(csv_map[walked[k]].key)
                  /\ P1Trace[k].csv = Some(csv_map[walked[k]].value)
                  /\ P1Trace[k].pdf = Some(P1Text(walked[k]))
            /\ failed <=> (pc = "halted" /\ CurrentPhase = 1)
            /\ failed =>
                  /\ P1First = i - 1
                  /\ Last(items) = Last(P1Trace)
                  /\ ~Last(items).ok
                  /\ Last(items).message[2] = csv_map[P1First].key
                  /\ Last(items).message =
                         IF P1Missing(P1First) THEN MsgMissing1(csv_map[P1First].key)
                         ELSE MsgDiffFM(csv_map[P1First].key, P1Text(P1First),
                                        csv_map[P1First].value)
            /\ CurrentPhase > 1 => P1Failing = {}

\* Phase 1 passed an entity whose total alone differs and halted on a later
\* one, with further entries of the map behind it
C15_Witness ==
    /\ pc = "halted"
    /\ CurrentPhase = 1
    /\ P1First < Len(csv_map)
    /\ \E n \in P1Examined :
          /\ n < P1First
          /\ P1Text(n).total # csv_map[n].value.total

\* The data and halt items of phase p in the trace, in order
PhaseTrace(p) ==
    LET at == SelectSeq([n \in 1..Len(items) |-> n],
                        LAMBDA n : PhaseAt(items, n) = p /\ ~items[n].is_header)
    IN  [k \in 1..Len(at) |-> items[at[k]]]

\* The labels of phase 3 in the order the claim gives them
P3Order == <<"VOTOS VALIDOS", "BLANCOS", "NULOS">>

P3Absent(label) == label \notin Keys(pdf_map) \/ label \notin Keys(csv_map)

\* The label is missing on a side, or differs in total, hombres or mujeres
P3Fails(label) ==
    \/ P3Absent(label)
    \/ VotesDiffer(Val(Get(pdf_map, label)), Val(Get(csv_map, label)))

\* The first label of P3Order that fails, 4 when none does
P3First ==
    IF \E k \in 1..3 : P3Fails(P3Order[k])
    THEN CHOOSE k \in 1..3 : P3Fails(P3Order[k]) /\ \A m \in 1..(k - 1) : ~P3Fails(P3Order[m])
    ELSE 4

\* C16: phase 3 checks VOTOS VALIDOS, then BLANCOS, then NULOS, each for
\* presence on both sides and equality of total, hombres and mujeres, and halts
\* at the first label that fails: the labels before it have their success
\* items, in that order, and no label after it is examined.
C16_Phase3FixedOrder ==
    /\ CurrentPhase = 3 =>
          LET trace == PhaseTrace(3)
          IN  /\ Len(trace) <= 3
              /\ pc = "p3_valid" => trace = <<>>
              /\ pc = "p3_labels" => Len(trace) = i
              /\ pc = "halted" <=> (trace # <<>> /\ Len(trace) = P3First)
              /\ \A k \in DOMAIN trace :
                    LET label == P3Order[k]
                    IN  IF k < P3First
                        THEN /\ trace[k].ok
                             /\ trace[k].entidad = label
                             /\ trace[k].message = MsgOk3(label)
                             /\ trace[k].pdf = Get(pdf_map, label)
                             /\ trace[k].csv = Get(csv_map, label)
                        ELSE /\ k = P3First
                             /\ k = Len(trace)
                             /\ ~trace[k].ok
                             /\ trace[k].message[2] = label
                             /\ IF P3Absent(label)
                                THEN trace[k].message = MsgMissing3(label)
                                ELSE SubSeq(trace[k].message, 1, 19) =
                                         MsgDiff3(label, Val(Get(pdf_map, label)),
                                                  Val(Get(csv_map, label)))
    /\ CurrentPhase > 3 => P3First = 4 /\ Len(PhaseTrace(3)) = 3

\* The run halted on NULOS, whose hombres differ, after the success items of
\* VOTOS VALIDOS and BLANCOS
C16_Witness ==
    /\ pc = "halted"
    /\ CurrentPhase = 3
    /\ Len(PhaseTrace(3)) = 3
    /\ ~P3Absent("NULOS")
    /\ Last(items).message[2] = "NULOS"

\* C19: compare_results halts in phase 1, 2 or 3 only. Once phase 3 has passed,
\* BLANCOS and NULOS are on both sides with equal values, so the presence
\* check and the sum comparison of phase 4 and the comparison of phase 5
\* cannot fail: a returned trace with a phase-4 header is not halted and has
\* all five phases.
C19_HaltsOnlyInPhases123 ==
    /\ pc = "halted" => CurrentPhase \in {1, 2, 3}
    /\ CurrentPhase >= 4 =>
          /\ {"BLANCOS", "NULOS"} \subseteq Keys(pdf_map) \cap Keys(csv_map)
          /\ \A k \in {"VOTOS VALIDOS", "BLANCOS", "NULOS"} :
                ~VotesDiffer(Val(Get(pdf_map, k)), Val(Get(csv_map, k)))
          /\ \A n \in DOMAIN items : items[n].ok
    /\ (Returned /\ 4 \in HeaderPhasesOf(Res.items)) =>
          /\ ~Res.halted
          /\ Res.halt_reason = None
          /\ HeaderPhasesOf(Res.items) = 1..5
          /\ \E n \in DOMAIN Res.items : Res.items[n].entidad = "INVALIDOS" /\ Res.items[n].ok
          /\ Last(Res.items).entidad = "TOTAL VOTOS" /\ Last(Res.items).ok

\* Phase 4 has just passed on maps that also hold the candidate B
C19_Witness ==
    /\ pc = "h5"
    /\ CurrentPhase = 4
    /\ Last(items).entidad = "INVALIDOS"
    /\ "B" \in Keys(csv_map)

\* The entities the diagnostic scan leaves out
ScanExcluded == {"BLANCOS", "NULOS", "VOTOS VALIDOS", "SUFRAGANTES"} \cup NON_VOTE_ENTITIES

\* VOTOS VALIDOS is on both sides and differs: phase 3 calls _candidate_diffs
ValidMismatch ==
    /\ ~P3Absent("VOTOS VALIDOS")
    /\ VotesDiffer(Val(Get(pdf_map, "VOTOS VALIDOS")), Val(Get(csv_map, "VOTOS VALIDOS")))

\* C20: when compare_results calls _candidate_diffs, on a VOTOS VALIDOS
\* mismatch in phase 3, the list returned is empty, since every entity the
\* scan compares has passed phase 1 in hombres/mujeres and phase 2 in total;
\* the halt message then ends in the hint that no differences were found.
C20_ScanFindsNothing ==
    /\ diffs # None =>
          /\ Val(diffs) = <<>>
          /\ ValidMismatch
          /\ pc = "halted" /\ CurrentPhase = 3
          /\ \A n \in DOMAIN csv_map :
                (Normalize(csv_map[n].key) \notin ScanExcluded /\ ~P1Missing(n)) =>
                    ~VotesDiffer(P1Text(n), csv_map[n].value)
          /\ Val(Res.halt_reason) =
                 MsgDiff3("VOTOS VALIDOS", Val(Get(pdf_map, "VOTOS VALIDOS")),
                          Val(Get(csv_map, "VOTOS VALIDOS")))
                     \o <<" No se encontraron diferencias por candidato.">>
    /\ (pc = "halted" /\ CurrentPhase = 3 /\ ValidMismatch) => diffs # None

\* VOTOS VALIDOS differs in a table that holds the candidates A and B
C20_Witness ==
    /\ diffs # None
    /\ pc = "halted"
    /\ {"A", "B"} \subseteq Keys(csv_map)

----------------------------------------------------------------------------
(* _candidate_diffs on its own, and the hint line 186 builds from its list:
   the table holds BLANCOS, MaxCandidates candidates and ELECTORES; the text
   differs on BLANCOS and ELECTORES, and on each candidate as its status says. *)

MaxCandidates == 6

CandNames == <<"C1", "C2", "C3", "C4", "C5", "C6", "C7", "C8", "C9">>

\* A candidate is equal in both sources, missing from the text, lower in the
\* text in one field (which one goes by its number), or lower in all three
CandStatuses == {"ok", "noText", "dOne", "dAll"}

CandTable(n) == [key |-> CandNames[n], value |-> EntityVotes(CandNames[n], 10 * n, 6 * n, 4 * n)]

Lower(n, st, field) == IF st = "dAll" \/ (st = "dOne" /\ n % 3 = field) THEN 1 ELSE 0

CandText(n, st) ==
    [key |-> CandNames[n],
     value |-> EntityVotes(CandNames[n], 10 * n - Lower(n, st, 1), 6 * n - Lower(n, st, 2),
                           4 * n - Lower(n, st, 0))]

DiffTable ==
    <<TableEntry("BLANCOS", "dT")>> \o [n \in 1..MaxCandidates |-> CandTable(n)]
        \o <<TableEntry("ELECTORES", "dH")>>

DiffText(status) ==
    LET ns == SelectSeq([n \in 1..MaxCandidates |-> n], LAMBDA n : status[n] # "noText")
    IN  <<TextEntry("BLANCOS", "ok"), TextEntry("ELECTORES", "ok")>>
            \o [m \in 1..Len(ns) |-> CandText(ns[m], status[ns[m]])]

\* compare_results is not running
IdleCmp ==
    /\ pdf_result = None
    /\ csv_result = None
    /\ csv_map = <<>>
    /\ pdf_map = <<>>
    /\ items = <<>>
    /\ pc = "idle"
    /\ i = 0
    /\ pdf_valid = None
    /\ csv_valid = None
    /\ pdf_invalid = None
    /\ csv_invalid = None
    /\ diffs = None
    /\ result = None

InitDiffs ==
    /\ \E status \in [1..MaxCandidates -> CandStatuses] :
          /\ d_pdf_map = DiffText(status)
          /\ d_csv_map = DiffTable
    /\ d_i = 1
    /\ d_diffs = <<>>
    /\ d_pc = "loop"
    /\ d_hint = None
    /\ IdleCmp
    /\ IdlePdf
    /\ IdleCsv
    /\ IdleUi

\* Lines 23-41: one iteration of the loop, with its break
DiffIter ==
    /\ d_pc = "loop"
    /\ d_i <= Len(d_csv_map)
    /\ LET r == DiffStep(d_pdf_map, d_csv_map[d_i], DiffLimit, d_diffs)
       IN  /\ d_diffs' = r.diffs
           /\ d_pc' = IF r.stop THEN "returned" ELSE "loop"
    /\ d_i' = d_i + 1
    /\ UNCHANGED <<d_pdf_map, d_csv_map, d_hint>>
    /\ UNCHANGED nonDfVars

\* Line 42: the loop ran out
DiffReturn ==
    /\ d_pc = "loop"
    /\ d_i > Len(d_csv_map)
    /\ d_pc' = "returned"
    /\ UNCHANGED <<d_pdf_map, d_csv_map, d_i, d_diffs, d_hint>>
    /\ UNCHANGED nonDfVars

\* Lines 186-190 of the caller
BuildHint ==
    /\ d_pc = "returned"
    /\ d_hint' = Some(Hint(d_diffs))
    /\ d_pc' = "hinted"
    /\ UNCHANGED <<d_pdf_map, d_csv_map, d_i, d_diffs>>
    /\ UNCHANGED nonDfVars

NextDiffs ==
    \/ DiffIter
    \/ DiffReturn
    \/ BuildHint

SpecDiffs == InitDiffs /\ [][NextDiffs]_vars

\* Positions of the table whose entity is a candidate present in the text with
\* a different total, hombres or mujeres
Differing ==
    {n \in DOMAIN d_csv_map :
        /\ d_csv_map[n].key \notin ScanExcluded
        /\ d_csv_map[n].key \in Keys(d_pdf_map)
        /\ LET p == Val(Get(d_pdf_map, d_csv_map[n].key))
               c == d_csv_map[n].value
           IN  p.total # c.total \/ p.hombres # c.hombres \/ p.mujeres # c.mujeres}

\* The differing positions in table order, cut to the first DiffLimit
FirstDiffering ==
    LET differing == Differing
        all == SelectSeq([n \in 1..Len(d_csv_map) |-> n], LAMBDA n : n \in differing)
    IN  IF Len(all) > DiffLimit THEN SubSeq(all, 1, DiffLimit) ELSE all

\* The list entry names the entity and shows its text->table values
ShowsPairs(entry, n) ==
    LET p == Val(Get(d_pdf_map, d_csv_map[n].key))
        c == d_csv_map[n].value
    IN  /\ Len(entry) = 14
        /\ entry[1] = d_csv_map[n].key
        /\ <<entry[3], entry[4], entry[5]>> = <<ToString(p.total), "->", ToString(c.total)>>
        /\ <<entry[7], entry[8], entry[9]>> = <<ToString(p.hombres), "->", ToString(c.hombres)>>
        /\ <<entry[11], entry[12], entry[13]>> = <<ToString(p.mujeres), "->", ToString(c.mujeres)>>

\* C8: the hint built on a VOTOS VALIDOS mismatch lists, in table order, the
\* candidates whose total, hombres or mujeres differ between text and table,
\* the first 5 of them at most and each with its three text->table pairs; when
\* no candidate differs the hint says that none were found.
C8_HintListsDifferingCandidates ==
    d_pc \in {"returned", "hinted"} =>
        LET first == FirstDiffering
        IN  /\ Len(d_diffs) = Len(first)
            /\ Len(d_diffs) <= 5
            /\ \A m \in DOMAIN d_diffs : ShowsPairs(d_diffs[m], first[m])
            /\ d_pc = "hinted" =>
                  /\ first = <<>> => Val(d_hint) = HintNone
                  /\ first # <<>> =>
                        /\ Val(d_hint)[1] = HintSome
                        /\ Len(Val(d_hint)) = 15 * Len(d_diffs)
                        /\ \A m \in DOMAIN d_diffs :
                              SubSeq(Val(d_hint), 15 * m - 13, 15 * m) = d_diffs[m]

\* More than five candidates differ and the hint lists five
C8_Witness ==
    /\ d_pc = "hinted"
    /\ Cardinality(Differing) > 5
    /\ Len(d_diffs) = 5

----------------------------------------------------------------------------
(* pdf_parser.py: parse_pdf. A line of the extracted text is what the code
   reads off it: whether it holds the date of round 1 or of round 2 (in any
   letter case, as the window is uppercased), and the groups of DEFAULT_PATTERN
   when the stripped line matches it. *)

\* _detect_vuelta: the number of leading lines it joins
DetectWindow == 30

RoundUndetected == "No se pudo detectar la vuelta. Verifica la fecha en el PDF."

NoEntitiesRecognized == "No se encontraron entidades en el PDF."

TextExtractionFailed == "Error leyendo PDF: "

Line(date1, date2, row) == [date1 |-> date1, date2 |-> date2, row |-> row]

Row(entidad, total, hombres, mujeres) ==
    Some([entidad |-> entidad, total |-> total, hombres |-> hombres, mujeres |-> mujeres])

OtherLine == Line(FALSE, FALSE, None)

\* The lines a document of the model is made of
LineKinds ==
    {OtherLine,
     Line(TRUE, FALSE, None),
     Line(FALSE, TRUE, None),
     Line(FALSE, FALSE, Row(" a ", 100, 60, 40)),
     Line(FALSE, FALSE, Row("b", 0, 0, 0)),
     Line(FALSE, FALSE, Row("Blancos", 5, 3, 2)),
     Line(FALSE, FALSE, Row("electores", 200, 90, 110)),
     Line(FALSE, FALSE, Row("votos  validos", 90, 50, 40))}

MaxBody == 3

\* How many lines without date or row may come before the body of the document
Pads == {0, DetectWindow - 1, DetectWindow}

RECURSIVE SeqsUpTo(_, _)
\* The sequences over S of length at most n
SeqsUpTo(S, n) ==
    IF n = 0 THEN {<<>>}
    ELSE LET shorter == SeqsUpTo(S, n - 1)
         IN  shorter \cup {Append(q, x) : q \in shorter, x \in S}

Documents ==
    {[readable |-> FALSE, lines |-> <<>>]}
        \cup {[readable |-> TRUE, lines |-> [n \in 1..pad |-> OtherLine] \o body] :
                 pad \in Pads, body \in SeqsUpTo(LineKinds, MaxBody)}

InitPdf ==
    /\ p_doc \in Documents
    /\ p_lines = <<>>
    /\ p_pc = "extract"
    /\ p_i = 0
    /\ p_vuelta = None
    /\ p_entidades = <<>>
    /\ p_out = None
    /\ p_error = None
    /\ IdleCmp
    /\ IdleDf
    /\ IdleCsv
    /\ IdleUi

_normalize_entidad(entidad) == Normalize(entidad)

\* Mutant: the dates are looked for in the whole text
_detect_vuelta_WholeText(lines) ==
    IF \E n \in DOMAIN lines : lines[n].date1 THEN Some(1)
    ELSE IF \E n \in DOMAIN lines : lines[n].date2 THEN Some(2)
    ELSE None

\* _detect_vuelta: the round, None when it raises
_detect_vuelta(lines) ==
    LET joined == SubSeq(lines, 1, IF Len(lines) < DetectWindow THEN Len(lines) ELSE DetectWindow)
    IN  IF \E n \in DOMAIN joined : joined[n].date1 THEN Some(1)
        ELSE IF \E n \in DOMAIN joined : joined[n].date2 THEN Some(2)
        ELSE None

\* Lines 96-108: the body of the loop over lines
ParseLine(entidades, line) ==
    IF line.row = None THEN entidades
    ELSE LET match == Val(line.row)
             entidad == _normalize_entidad(match.entidad)
         IN  Put(entidades, entidad,
                 EntityVotes(entidad, match.total, match.hombres, match.mujeres))

RECURSIVE SumVotes(_, _, _)
\* Lines 111-123: the sums over the entities that are no administrative
\* aggregate, no blank/null label and not VOTOS VALIDOS
SumVotes(entidades, n, acc) ==
    IF n > Len(entidades) THEN acc
    ELSE LET key == entidades[n].key
             votes == entidades[n].value
         IN  IF key \in NON_VOTE_ENTITIES \/ key \in NON_VALID_ENTITIES \/ key = "VOTOS VALIDOS"
             THEN SumVotes(entidades, n + 1, acc)
             ELSE SumVotes(entidades, n + 1,
                           [total |-> acc.total + votes.total,
                            hombres |-> acc.hombres + votes.hombres,
                            mujeres |-> acc.mujeres + votes.mujeres])

\* Mutant: the synthetic entry is added also when its total is 0
SynthesizeValid_AlsoZero(entidades) ==
    IF "VOTOS VALIDOS" \notin Keys(entidades)
    THEN Put(entidades, "VOTOS VALIDOS",
             AsEntity("VOTOS VALIDOS",
                      SumVotes(entidades, 1, [total |-> 0, hombres |-> 0, mujeres |-> 0])))
    ELSE entidades

\* Mutant: the sums replace a reported VOTOS VALIDOS row
SynthesizeValid_Overwrite(entidades) ==
    LET votos == SumVotes(entidades, 1, [total |-> 0, hombres |-> 0, mujeres |-> 0])
    IN  IF votos.total > 0
        THEN Put(entidades, "VOTOS VALIDOS", AsEntity("VOTOS VALIDOS", votos))
        ELSE entidades

\* Lines 110-131: valid-votes synthesis
SynthesizeValid(entidades) ==
    IF "VOTOS VALIDOS" \notin Keys(entidades)
    THEN LET votos == SumVotes(entidades, 1, [total |-> 0, hombres |-> 0, mujeres |-> 0])
         IN  IF votos.total > 0
             THEN Put(entidades, "VOTOS VALIDOS", AsEntity("VOTOS VALIDOS", votos))
             ELSE entidades
    ELSE entidades

\* Lines 80-91: text extraction, wrapped into PdfParseError when it fails
Extract ==
    /\ p_pc = "extract"
    /\ IF p_doc.readable
       THEN p_lines' = p_doc.lines /\ p_pc' = "detect" /\ p_error' = p_error
       ELSE p_lines' = p_lines /\ p_pc' = "raised" /\ p_error' = Some(TextExtractionFailed)
    /\ UNCHANGED <<p_doc, p_i, p_vuelta, p_entidades, p_out>>
    /\ UNCHANGED nonPdfVars

\* Line 92
Detect ==
    /\ p_pc = "detect"
    /\ LET v == _detect_vuelta(p_lines)
       IN  IF v = None
           THEN p_pc' = "raised" /\ p_error' = Some(RoundUndetected) /\ p_vuelta' = p_vuelta
           ELSE p_pc' = "rows" /\ p_error' = p_error /\ p_vuelta' = v
    /\ p_i' = 1
    /\ UNCHANGED <<p_doc, p_lines, p_entidades, p_out>>
    /\ UNCHANGED nonPdfVars

\* Lines 95-108: one iteration
RowIter ==
    /\ p_pc = "rows"
    /\ p_i <= Len(p_lines)
    /\ p_entidades' = ParseLine(p_entidades, p_lines[p_i])
    /\ p_i' = p_i + 1
    /\ UNCHANGED <<p_doc, p_lines, p_pc, p_vuelta, p_out, p_error>>
    /\ UNCHANGED nonPdfVars

\* Lines 110-131
Synthesize ==
    /\ p_pc = "rows"
    /\ p_i > Len(p_lines)
    /\ p_entidades' = SynthesizeValid(p_entidades)
    /\ p_pc' = "check"
    /\ UNCHANGED <<p_doc, p_lines, p_i, p_vuelta, p_out, p_error>>
    /\ UNCHANGED nonPdfVars

\* Lines 133-136
Finish ==
    /\ p_pc = "check"
    /\ IF p_entidades = <<>>
       THEN p_pc' = "raised" /\ p_error' = Some(NoEntitiesRecognized) /\ p_out' = p_out
       ELSE /\ p_pc' = "returned"
            /\ p_error' = p_error
            /\ p_out' = Some(PdfParseResult(Val(p_vuelta), p_entidades))
    /\ UNCHANGED <<p_doc, p_lines, p_i, p_vuelta, p_entidades>>
    /\ UNCHANGED nonPdfVars

NextPdf ==
    \/ Extract
    \/ Detect
    \/ RowIter
    \/ Synthesize
    \/ Finish

SpecPdf == InitPdf /\ [][NextPdf]_vars

PdfEnded == p_pc \in {"returned", "raised"}

\* The text was extracted and none of its lines matches the row pattern
NoRows == p_doc.readable /\ \A n \in DOMAIN p_doc.lines : p_doc.lines[n].row = None

\* One of the first 30 lines holds a round date
DateInWindow ==
    \E n \in DOMAIN p_doc.lines : n <= 30 /\ (p_doc.lines[n].date1 \/ p_doc.lines[n].date2)

\* C9 as stated: every document without a row matching the pattern ends in
\* the NoEntitiesRecognized error, whatever else it contains.
C9_AsStated ==
    (PdfEnded /\ NoRows) => p_error = Some(NoEntitiesRecognized) /\ p_out = None

\* C9 (amended): every document that has a round date among its first 30
\* lines and no line matching the row pattern ends in the NoEntitiesRecognized
\* error, and in no other error or result, whatever else it contains.
C9_NoRowsNoEntities ==
    (PdfEnded /\ NoRows /\ DateInWindow) =>
        /\ p_pc = "raised"
        /\ p_error = Some(NoEntitiesRecognized)
        /\ p_out = None

\* A dated document of several lines, none of them a row
C9_Witness ==
    /\ p_pc = "raised"
    /\ NoRows
    /\ DateInWindow
    /\ Len(p_doc.lines) > 30
    /\ p_error = Some(NoEntitiesRecognized)

\* The recognized entities that count as valid votes
Candidates(entidades) == Keys(entidades) \ (NON_VOTE_ENTITIES \cup {"BLANCOS", "NULOS"})

\* The last row of the document whose entity normalizes to the given name
LastRowOf(name) ==
    LET at == {n \in DOMAIN p_doc.lines :
                  /\ p_doc.lines[n].row # None
                  /\ Normalize(Val(p_doc.lines[n].row).entidad) = name}
        n == CHOOSE m \in at : \A k \in at : k <= m
    IN  Val(p_doc.lines[n].row)

\* C17: the synthesis step keeps a reported VOTOS VALIDOS row as it is;
\* without one it appends a VOTOS VALIDOS entry holding the sums of total,
\* hombres and mujeres over the recognized entities that are neither
\* administrative aggregates nor BLANCOS/NULOS, and only when the summed total
\* is above 0; every other entry of the map stays as it was.
C17_ValidVotesSynthesis ==
    [][(p_pc = "rows" /\ p_pc' = "check") =>
          LET sums == SumOver(p_entidades, Candidates(p_entidades),
                              [total |-> 0, hombres |-> 0, mujeres |-> 0])
          IN  IF "VOTOS VALIDOS" \in Keys(p_entidades)
              THEN /\ p_entidades' = p_entidades
                   /\ Val(Get(p_entidades', "VOTOS VALIDOS")).total =
                          LastRowOf("VOTOS VALIDOS").total
                   /\ Val(Get(p_entidades', "VOTOS VALIDOS")).hombres =
                          LastRowOf("VOTOS VALIDOS").hombres
                   /\ Val(Get(p_entidades', "VOTOS VALIDOS")).mujeres =
                          LastRowOf("VOTOS VALIDOS").mujeres
              ELSE IF sums.total > 0
              THEN p_entidades' =
                       Append(p_entidades,
                              [key |-> "VOTOS VALIDOS",
                               value |-> EntityVotes("VOTOS VALIDOS", sums.total, sums.hombres,
                                                     sums.mujeres)])
              ELSE p_entidades' = p_entidades]_vars

\* A report with a candidate and BLANCOS and no VOTOS VALIDOS row: the entry
\* was added with the candidate's votes
C17_Witness ==
    /\ p_pc = "check"
    /\ "BLANCOS" \in Keys(p_entidades)
    /\ \A n \in DOMAIN p_doc.lines :
          p_doc.lines[n].row # None =>
              Normalize(Val(p_doc.lines[n].row).entidad) # "VOTOS VALIDOS"
    /\ Get(p_entidades, "VOTOS VALIDOS") = Some(EntityVotes("VOTOS VALIDOS", 100, 60, 40))

\* The date of round 1, of round 2, occurs in the first 30 lines
Date1Early == \E n \in DOMAIN p_doc.lines : n <= 30 /\ p_doc.lines[n].date1

Date2Early == \E n \in DOMAIN p_doc.lines : n <= 30 /\ p_doc.lines[n].date2

\* C18: round detection reads the first 30 lines only: the round is 1 when the
\* date of round 1 occurs there, also next to the date of round 2, it is 2
\* when only the date of round 2 occurs there, and with neither date there
\* the parser fails with RoundUndetected, also when a date comes after line
\* 30; then no entity is parsed and no result is returned.
C18_RoundDetection ==
    (p_doc.readable /\ p_pc \notin {"extract", "detect"}) =>
        /\ Date1Early => p_vuelta = Some(1)
        /\ (~Date1Early /\ Date2Early) => p_vuelta = Some(2)
        /\ (Date1Early \/ Date2Early) =>
              /\ p_error # Some(RoundUndetected)
              /\ p_pc = "returned" => Val(p_out).vuelta = Val(p_vuelta)
        /\ (~Date1Early /\ ~Date2Early) =>
              /\ p_pc = "raised"
              /\ p_error = Some(RoundUndetected)
              /\ p_vuelta = None
              /\ p_entidades = <<>>
              /\ p_out = None

\* A document whose only date is on line 31, followed by a row
C18_Witness ==
    /\ p_pc = "raised"
    /\ p_error = Some(RoundUndetected)
    /\ Len(p_doc.lines) > 31
    /\ p_doc.lines[31].date1 \/ p_doc.lines[31].date2
    /\ \E n \in DOMAIN p_doc.lines : p_doc.lines[n].row # None

----------------------------------------------------------------------------
(* csv_loader.py: load_csv. The table is what pd.read_csv decodes: its column
   names and its records; a field is None where its column is absent, and
   VALUE is None where it is not numeric. *)

MissingColumn == <<"El CSV no contiene la columna VUELTA.">>

NoRowsForRound(vuelta) == <<"No hay datos para la vuelta ", ToString(vuelta), " en el CSV.">>

Record(vuelta, variable, value, provincia) ==
    [vuelta |-> vuelta, variable |-> variable, value |-> value, provincia_nombre |-> provincia]

\* The records a table of the model is made of
RecordKinds ==
    {Record(Some(1), "A_F", Some(40), Some("P")),
     Record(Some(1), "A_M ", Some(60), Some("P")),
     Record(Some(1), "A_T", Some(101), Some("Q")),
     Record(Some(1), "B_F", Some(20), Some("Q")),
     Record(Some(2), "A_F", Some(7), Some("P")),
     Record(Some(1), "JUNK", Some(9), Some("P")),
     Record(Some(1), "B_M", None, Some("P"))}

MaxRecords == 3

\* The record as decoded from a file that lacks some of the columns
Project(r, columns) ==
    [r EXCEPT !.vuelta = IF "VUELTA" \in columns THEN @ ELSE None,
              !.provincia_nombre = IF "PROVINCIA_NOMBRE" \in columns THEN @ ELSE None]

ColumnSets ==
    {{"VARIABLE", "VALUE"} \cup extra : extra \in SUBSET {"VUELTA", "PROVINCIA_NOMBRE"}}

Tables ==
    {[columns |-> columns, rows |-> [n \in 1..Len(rows) |-> Project(rows[n], columns)]] :
        columns \in ColumnSets, rows \in SeqsUpTo(RecordKinds, MaxRecords)}

InitCsv ==
    /\ c_table \in Tables
    /\ c_vuelta \in {1, 2}
    /\ c_pc = "read"
    /\ c_df = <<>>
    /\ c_entidades = <<>>
    /\ c_provincia = <<>>
    /\ c_out = None
    /\ c_error = None
    /\ IdleCmp
    /\ IdleDf
    /\ IdlePdf
    /\ IdleUi

\* The stripped variables that match VARIABLE_PATTERN, with their groups
Variables ==
    {<<"A_F", "A", "F">>, <<"A_M", "A", "M">>, <<"A_T", "A", "T">>,
     <<"B_F", "B", "F">>, <<"B_M", "B", "M">>, <<"B_T", "B", "T">>,
     <<"BLANCOS_F", "BLANCOS", "F">>, <<"BLANCOS_M", "BLANCOS", "M">>,
     <<"NULOS_F", "NULOS", "F">>, <<"NULOS_M", "NULOS", "M">>,
     <<"VOTOS VALIDOS_F", "VOTOS VALIDOS", "F">>, <<"VOTOS VALIDOS_M", "VOTOS VALIDOS", "M">>}

\* str.strip() on the variables of the model
Strip(text) == IF text = "A_M " THEN "A_M" ELSE text

\* _split_variable: (name, sexo), None when the pattern does not match
_split_variable(variable) ==
    IF \E v \in Variables : v[1] = Strip(variable)
    THEN LET v == CHOOSE w \in Variables : w[1] = Strip(variable) IN Some(<<v[2], v[3]>>)
    ELSE None

\* Mutant: the records of every round are kept
FilterRound_AnyRound(rows, vuelta) == rows

\* df[df["VUELTA"] == vuelta]
FilterRound(rows, vuelta) == SelectSeq(rows, LAMBDA r : r.vuelta = Some(vuelta))

\* Lines 53-60: VALUE coerced to int (0 when not numeric), BASE and SEXO split
\* off VARIABLE, records without them dropped
Prepared(rows) ==
    LET kept == SelectSeq(rows, LAMBDA r : _split_variable(r.variable) # None)
    IN  [n \in 1..Len(kept) |->
            [value |-> IF kept[n].value = None THEN 0 ELSE Val(kept[n].value),
             base |-> Val(_split_variable(kept[n].variable))[1],
             sexo |-> Val(_split_variable(kept[n].variable))[2],
             provincia_nombre |-> kept[n].provincia_nombre]]

RECURSIVE SumValues(_, _)
SumValues(rows, n) == IF n = 0 THEN 0 ELSE rows[n].value + SumValues(rows, n - 1)

\* The cell of the unstacked frame for a group of records and a sexo column:
\* the sum of the group's records of that sexo, 0 where it has none
Cell(group, sexo) ==
    LET of_sexo == SelectSeq(group, LAMBDA r : r.sexo = sexo) IN SumValues(of_sexo, Len(of_sexo))

\* Lines 66-69 and 78-80: the EntityVotes of one row of the unstacked frame,
\* whose columns are the sexo codes present anywhere in df
RowVotes(entidad, group, columns) ==
    LET mujeres == IF "F" \in columns THEN Cell(group, "F") ELSE 0
        hombres == IF "M" \in columns THEN Cell(group, "M") ELSE 0
        total == IF "T" \in columns THEN Cell(group, "T") ELSE mujeres + hombres
    IN  EntityVotes(entidad, total, hombres, mujeres)

\* The names in the order groupby sorts them
BaseOrder == <<"A", "B", "BLANCOS", "NULOS", "VOTOS VALIDOS">>

ProvinciaOrder == <<"P", "Q">>

RECURSIVE AggregateFrom(_, _, _)
\* Lines 62-69: the loop over the rows of the unstacked frame
AggregateFrom(df, n, acc) ==
    IF n > Len(BaseOrder) THEN acc
    ELSE LET base == BaseOrder[n]
             group == SelectSeq(df, LAMBDA r : r.base = base)
             columns == {df[m].sexo : m \in DOMAIN df}
         IN  IF group = <<>> THEN AggregateFrom(df, n + 1, acc)
             ELSE AggregateFrom(df, n + 1,
                                Put(acc, Normalize(base),
                                    RowVotes(Normalize(base), group, columns)))

Aggregate(df) == AggregateFrom(df, 1, <<>>)

RECURSIVE AggregateProvinciaFrom(_, _, _, _)
\* Lines 73-86: the loop over the (provincia, base) rows of the unstacked frame
AggregateProvinciaFrom(df, p, n, acc) ==
    IF p > Len(ProvinciaOrder) THEN acc
    ELSE IF n > Len(BaseOrder) THEN AggregateProvinciaFrom(df, p + 1, 1, acc)
    ELSE LET provincia == ProvinciaOrder[p]
             base == BaseOrder[n]
             group == SelectSeq(df, LAMBDA r : r.base = base
                                               /\ r.provincia_nombre = Some(provincia))
             columns == {df[m].sexo : m \in DOMAIN df}
             key == Normalize(provincia \o " - " \o base)
         IN  IF group = <<>> THEN AggregateProvinciaFrom(df, p, n + 1, acc)
             ELSE AggregateProvinciaFrom(df, p, n + 1,
                                         Put(acc, key, RowVotes(key, group, columns)))

AggregateProvincia(df) == AggregateProvinciaFrom(df, 1, 1, <<>>)

\* Lines 45-47
CheckColumn ==
    /\ c_pc = "read"
    /\ IF "VUELTA" \notin c_table.columns
       THEN c_pc' = "raised" /\ c_error' = Some(MissingColumn)
       ELSE c_pc' = "filter" /\ c_error' = c_error
    /\ UNCHANGED <<c_table, c_vuelta, c_df, c_entidades, c_provincia, c_out>>
    /\ UNCHANGED nonCsvVars

\* Lines 49-51
Filter ==
    /\ c_pc = "filter"
    /\ c_df' = FilterRound(c_table.rows, c_vuelta)
    /\ IF c_df' = <<>>
       THEN c_pc' = "raised" /\ c_error' = Some(NoRowsForRound(c_vuelta))
       ELSE c_pc' = "prepare" /\ c_error' = c_error
    /\ UNCHANGED <<c_table, c_vuelta, c_entidades, c_provincia, c_out>>
    /\ UNCHANGED nonCsvVars

\* Lines 53-60
Prepare ==
    /\ c_pc = "prepare"
    /\ c_df' = Prepared(c_df)
    /\ c_pc' = "national"
    /\ UNCHANGED <<c_table, c_vuelta, c_entidades, c_provincia, c_out, c_error>>
    /\ UNCHANGED nonCsvVars

\* Lines 62-69
AggregateNational ==
    /\ c_pc = "national"
    /\ c_entidades' = Aggregate(c_df)
    /\ c_pc' = "provincia"
    /\ UNCHANGED <<c_table, c_vuelta, c_df, c_provincia, c_out, c_error>>
    /\ UNCHANGED nonCsvVars

\* Lines 71-88
AggregateSubdivisions ==
    /\ c_pc = "provincia"
    /\ c_provincia' = IF "PROVINCIA_NOMBRE" \in c_table.columns
                      THEN AggregateProvincia(c_df)
                      ELSE <<>>
    /\ c_out' = Some(CsvLoadResult(c_vuelta, c_entidades, c_provincia'))
    /\ c_pc' = "returned"
    /\ UNCHANGED <<c_table, c_vuelta, c_df, c_entidades, c_error>>
    /\ UNCHANGED nonCsvVars

NextCsv ==
    \/ CheckColumn
    \/ Filter
    \/ Prepare
    \/ AggregateNational
    \/ AggregateSubdivisions

SpecCsv == InitCsv /\ [][NextCsv]_vars

HasRoundColumn == "VUELTA" \in c_table.columns

HasRecordOfRound == \E n \in DOMAIN c_table.rows : c_table.rows[n].vuelta = Some(c_vuelta)

\* C10: a table without the round column fails with MissingColumn before
\* anything is filtered, a table with the column and no record of the requested
\* round fails with NoRowsForRound, and neither produces a result.
C10_MissingColumnOrNoRows ==
    /\ ~HasRoundColumn =>
          /\ c_pc \in {"read", "raised"}
          /\ c_df = <<>>
          /\ c_out = None
          /\ c_pc = "raised" => c_error = Some(MissingColumn)
    /\ (HasRoundColumn /\ ~HasRecordOfRound) =>
          /\ c_pc \in {"read", "filter", "raised"}
          /\ c_out = None
          /\ c_pc = "raised" =>
                c_error = Some(<<"No hay datos para la vuelta ", ToString(c_vuelta),
                                 " en el CSV.">>)

\* Records of the other round only: NoRowsForRound
C10_Witness ==
    /\ c_pc = "raised"
    /\ HasRoundColumn
    /\ Len(c_table.rows) >= 2
    /\ c_error # Some(MissingColumn)

\* total as the claim has it for a group of prepared records of one base name
TotalPerBase(group) ==
    IF \E n \in DOMAIN group : group[n].sexo = "T"
    THEN Cell(group, "T")
    ELSE Cell(group, "M") + Cell(group, "F")

\* C14: in the aggregated output, national and per subdivision, the total of a
\* base name is the sum of its T records when it has at least one, and its
\* hombres + mujeres otherwise, whether or not other base names have T records.
C14_AsStated ==
    /\ c_pc \in {"provincia", "returned"} =>
          \A n \in DOMAIN c_entidades :
              \A b \in DOMAIN BaseOrder :
                  Normalize(BaseOrder[b]) = c_entidades[n].key =>
                      LET group == SelectSeq(c_df, LAMBDA r : r.base = BaseOrder[b])
                          votes == c_entidades[n].value
                      IN  /\ votes.total = TotalPerBase(group)
                          /\ ~(\E m \in DOMAIN group : group[m].sexo = "T") =>
                                 votes.total = votes.hombres + votes.mujeres
    /\ c_pc = "returned" =>
          \A n \in DOMAIN c_provincia :
              \A q \in DOMAIN ProvinciaOrder, b \in DOMAIN BaseOrder :
                  Normalize(ProvinciaOrder[q] \o " - " \o BaseOrder[b]) = c_provincia[n].key =>
                      LET group == SelectSeq(c_df, LAMBDA r :
                                                 /\ r.base = BaseOrder[b]
                                                 /\ r.provincia_nombre = Some(ProvinciaOrder[q]))
                      IN  c_provincia[n].value.total = TotalPerBase(group)

----------------------------------------------------------------------------
(* ui/app_window.py: AppWindow._run_validation, the three stages run one
   after the other on the selected document and table. *)

SelectFiles == <<"[X] Debes seleccionar un PDF y un CSV.", "\n">>

Stopped == <<"\n", "Proceso detenido por inconsistencia.", "\n">>

ValidationError == <<"[X] Error durante la validacion:", "\n">>

BoxLine(text, tag) == [text |-> text, tag |-> tag]

DateLine(round) == Line(round = 1, round = 2, None)

\* The report of the reference tally, dated with the given round
Report(round) ==
    <<DateLine(round),
      Line(FALSE, FALSE, Row(" a ", 100, 60, 40)),
      Line(FALSE, FALSE, Row("Blancos", 5, 3, 2)),
      Line(FALSE, FALSE, Row("nulos ", 3, 2, 1))>>

\* The documents a validation is run on
PipeDocuments ==
    {[readable |-> FALSE, lines |-> <<>>],
     [readable |-> TRUE, lines |-> <<Line(FALSE, FALSE, Row(" a ", 100, 60, 40))>>],
     [readable |-> TRUE, lines |-> <<DateLine(1)>>],
     [readable |-> TRUE, lines |-> Report(1)],
     [readable |-> TRUE, lines |-> Report(2)],
     [readable |-> TRUE, lines |-> <<DateLine(2)>> \o Report(1)],
     [readable |-> TRUE, lines |-> <<DateLine(1), Line(FALSE, FALSE, Row("p  -  a", 100, 60, 40))>>]}

\* The records of the reference tally for one round
Tally(round) ==
    <<Record(Some(round), "A_F", Some(40), Some("P")),
      Record(Some(round), "A_M ", Some(60), Some("P")),
      Record(Some(round), "BLANCOS_F", Some(2), Some("P")),
      Record(Some(round), "BLANCOS_M", Some(3), Some("P")),
      Record(Some(round), "NULOS_F", Some(1), Some("P")),
      Record(Some(round), "NULOS_M", Some(2), Some("P")),
      Record(Some(round), "VOTOS VALIDOS_F", Some(40), Some("P")),
      Record(Some(round), "VOTOS VALIDOS_M", Some(60), Some("P"))>>

\* Records of round 2 that differ from the tally
OtherRound == <<Record(Some(2), "A_F", Some(7), Some("P")), Record(Some(2), "B_F", Some(20), Some("Q"))>>

PipeRows == {<<>>, Tally(1), Tally(1) \o OtherRound, OtherRound \o Tally(1), OtherRound}

\* The tables a validation is run on
PipeTables ==
    {[columns |-> columns, rows |-> [n \in 1..Len(rows) |-> Project(rows[n], columns)]] :
        columns \in ColumnSets, rows \in PipeRows}

\* Pressing the button: nothing has run, a document and a table may be selected
InitPipeline ==
    /\ p_doc \in PipeDocuments \cup {None}
    /\ c_table \in PipeTables \cup {None}
    /\ u_pc = "check"
    /\ u_box = <<>>
    /\ p_lines = <<>>
    /\ p_pc = "idle"
    /\ p_i = 0
    /\ p_vuelta = None
    /\ p_entidades = <<>>
    /\ p_out = None
    /\ p_error = None
    /\ c_vuelta = 0
    /\ c_pc = "idle"
    /\ c_df = <<>>
    /\ c_entidades = <<>>
    /\ c_provincia = <<>>
    /\ c_out = None
    /\ c_error = None
    /\ IdleCmp
    /\ IdleDf

\* Lines 77-87: without both paths the handler reports and returns, otherwise
\* it enters the try block and calls parse_pdf(pdf_path)
CheckPaths ==
    /\ u_pc = "check"
    /\ IF p_doc = None \/ c_table = None
       THEN /\ u_box' = <<BoxLine(SelectFiles, "error")>>
            /\ u_pc' = "done"
            /\ p_pc' = p_pc
       ELSE /\ u_box' = <<>>
            /\ u_pc' = "parse_pdf"
            /\ p_pc' = "extract"
    /\ UNCHANGED <<p_doc, p_lines, p_i, p_vuelta, p_entidades, p_out, p_error>>
    /\ UNCHANGED <<cmpVars, csvVars, nonUiVars>>

\* Mutant: the aggregator is always asked for round 1
RoundArgument_First(parsed) == 1

\* Line 88: the second argument of load_csv
RoundArgument(parsed) == parsed.vuelta

\* Line 88: parse_pdf has returned, load_csv(csv_path, pdf_result.vuelta) is called
CallLoadCsv ==
    /\ u_pc = "parse_pdf"
    /\ p_pc = "returned"
    /\ c_vuelta' = RoundArgument(Val(p_out))
    /\ c_pc' = "read"
    /\ u_pc' = "load_csv"
    /\ UNCHANGED <<c_table, c_df, c_entidades, c_provincia, c_out, c_error, u_box>>
    /\ UNCHANGED <<cmpVars, pdfVars, nonUiVars>>

\* Line 89: load_csv has returned, compare_results(pdf_result, csv_result) is called
CallCompare ==
    /\ u_pc = "load_csv"
    /\ c_pc = "returned"
    /\ pdf_result' = Val(p_out)
    /\ csv_result' = Val(c_out)
    /\ pc' = "start"
    /\ u_pc' = "compare_results"
    /\ UNCHANGED <<csv_map, pdf_map, items, i, pdf_valid, csv_valid, pdf_invalid, csv_invalid,
                   diffs, result, u_box>>
    /\ UNCHANGED <<pdfVars, csvVars, nonUiVars>>

RECURSIVE Rendered(_, _)
\* Lines 91-96: the trace, item by item
Rendered(its, n) ==
    IF n = 0 THEN <<>>
    ELSE Append(Rendered(its, n - 1),
                BoxLine(its[n].message \o <<"\n">>,
                        IF its[n].is_header THEN "phase"
                        ELSE IF its[n].ok THEN "ok" ELSE "error"))

\* Lines 91-100: compare_results has returned and its trace is shown
Render ==
    /\ u_pc = "compare_results"
    /\ pc \in {"done", "halted"}
    /\ LET comparison == Val(result)
       IN  u_box' = Rendered(comparison.items, Len(comparison.items))
                       \o (IF comparison.halted THEN <<BoxLine(Stopped, "summary")>> ELSE <<>>)
    /\ u_pc' = "done"
    /\ UNCHANGED <<cmpVars, pdfVars, csvVars, nonUiVars>>

\* traceback.format_exc() of the exception a stage raised
Traceback ==
    IF p_pc = "raised" THEN <<"PdfParseError: ", Val(p_error), "\n">>
    ELSE IF c_pc = "raised" THEN <<"ValueError: ">> \o Val(c_error) \o <<"\n">>
    ELSE <<"Error", "\n">>

\* Lines 101-104: the stage that is running raised, the try block is left
Except ==
    /\ \/ u_pc = "parse_pdf" /\ p_pc = "raised"
       \/ u_pc = "load_csv" /\ c_pc = "raised"
       \/ u_pc = "compare_results" /\ pc = "raised"
    /\ u_box' = <<BoxLine(ValidationError, "error"), BoxLine(Traceback \o <<"\n">>, "error")>>
    /\ u_pc' = "failed"
    /\ UNCHANGED <<cmpVars, pdfVars, csvVars, nonUiVars>>

NextPipeline ==
    \/ CheckPaths
    \/ NextPdf
    \/ CallLoadCsv
    \/ NextCsv
    \/ CallCompare
    \/ NextCmp
    \/ Render
    \/ Except

SpecPipeline == InitPipeline /\ [][NextPipeline]_vars

\* The round the text of the selected document is dated with
DocumentRound == Val(_detect_vuelta(p_doc.lines))

\* The records of the selected table that belong to the given round
RecordsOfRound(round) == SelectSeq(c_table.rows, LAMBDA r : r.vuelta = Some(round))

\* C12: the stages run in the order text parser, tabular aggregator,
\* comparator. The aggregator starts only after the parser has returned, with
\* the round the parser detected, and keeps exactly the records of that round;
\* the comparator starts only after both have returned, on their results; when
\* the parser or the aggregator fails, no later stage runs.
C12_StagesInOrder ==
    /\ c_pc # "idle" =>
          /\ p_pc = "returned"
          /\ c_vuelta = Val(p_out).vuelta
          /\ c_vuelta = DocumentRound
    /\ c_pc = "prepare" => c_df = RecordsOfRound(DocumentRound)
    /\ c_pc \in {"provincia", "returned"} =>
          c_entidades = Aggregate(Prepared(RecordsOfRound(DocumentRound)))
    /\ c_pc = "returned" => Val(c_out).vuelta = DocumentRound
    /\ pc # "idle" =>
          /\ p_pc = "returned"
          /\ c_pc = "returned"
          /\ pdf_result = Val(p_out)
          /\ csv_result = Val(c_out)
    /\ p_pc = "raised" => c_pc = "idle" /\ pc = "idle" /\ u_pc \in {"parse_pdf", "failed"}
    /\ c_pc = "raised" => pc = "idle" /\ u_pc \in {"load_csv", "failed"}
    /\ u_pc \in {"check", "done"} /\ u_box = <<BoxLine(SelectFiles, "error")>> =>
          p_pc = "idle" /\ c_pc = "idle" /\ pc = "idle"

\* A report of round 2 against a table with records of both rounds: all three
\* stages ran and the trace is shown
C12_Witness ==
    /\ u_pc = "done"
    /\ pc \in {"done", "halted"}
    /\ c_vuelta = 2
    /\ RecordsOfRound(1) # <<>>
    /\ RecordsOfRound(2) # <<>>

----------------------------------------------------------------------------
(* compare_results on the two maps of load_csv: which map is selected, and
   which map drives the comparison *)

\* csv_loader.py line 77: the form of a key of entidades_por_provincia
SubdivisionForm(key) ==
    \E p \in DOMAIN ProvinciaOrder, b \in DOMAIN BaseOrder :
        key = Normalize(ProvinciaOrder[p] \o " - " \o BaseOrder[b])

\* Line 71 returned: the selection picked the subdivision map
SubdivisionSelected ==
    /\ pc \notin {"idle", "start"}
    /\ csv_result.entidades_por_provincia # <<>>
    /\ csv_map = csv_result.entidades_por_provincia

\* The positions of compare_results after the VOTOS VALIDOS check of phase 3
AfterValidCheck == {"p3_labels", "p4", "h5", "p5", "done"}

\* C21: when the selection picked the subdivision map, whose keys all have the
\* form "<SUBDIVISION> - <BASENAME>", the map has no key VOTOS VALIDOS, BLANCOS
\* or NULOS, the function never gets past the VOTOS VALIDOS check of phase 3
\* and never raises, and what it returns is halted, in phase 1 or 2 or in phase
\* 3 on the missing VOTOS VALIDOS; a result that is not halted was computed on
\* the national map.
C21_SubdivisionMapHalts ==
    /\ (SubdivisionSelected /\ \A k \in Keys(csv_map) : SubdivisionForm(k)) =>
          /\ Keys(csv_map) \cap {"VOTOS VALIDOS", "BLANCOS", "NULOS"} = {}
          /\ pc \notin AfterValidCheck
          /\ pc # "raised"
          /\ pc = "p3_valid" => ~Phase3ValidRaises(pdf_map, csv_map)
                                 /\ Phase3Valid(items, pdf_map, csv_map).halted
          /\ Returned =>
                /\ Res.halted
                /\ CurrentPhase \in 1..3
                /\ CurrentPhase = 3 =>
                      PhaseTrace(3) = <<HaltItem(MsgMissing3("VOTOS VALIDOS"))>>
    /\ (Returned /\ ~Res.halted) =>
          /\ ~SubdivisionSelected
          /\ csv_map = csv_result.entidades

\* The subdivision map was selected, every entry of it passed phases 1 and 2,
\* the text has VOTOS VALIDOS, and phase 3 halted on the missing key
C21_Witness ==
    /\ SubdivisionSelected
    /\ \A k \in Keys(csv_map) : SubdivisionForm(k)
    /\ pc = "halted"
    /\ CurrentPhase = 3
    /\ "VOTOS VALIDOS" \in Keys(pdf_map)
    /\ Val(Res.halt_reason) = MsgMissing3("VOTOS VALIDOS")

\* What compare_results has come to: it raised, or the trace so far with the
\* result of a return through halt()
Ran(r) == [raised |-> FALSE, r |-> r]

Threw(its) == [raised |-> TRUE, r |-> Continue(its)]

\* The next statement runs only when nothing before it raised or returned
Then(o, Step(_)) == IF o.raised \/ o.r.halted THEN o ELSE Step(o.r.items)

\* Lines 87-109 as a statement of the body
Header(o, p) == Then(o, LAMBDA its : Ran(Continue(AddPhaseHeader(its, p, PhaseTitle(p)))))

\* The body of the loop of phase 1 (lines 117-139) or 2 (lines 145-170)
Entry(its, pmap, entry, phase) ==
    IF phase = 1
    THEN IF Phase1Raises(pmap, entry) THEN Threw(its)
         ELSE Ran(Phase1Entry(its, pmap, entry))
    ELSE IF Phase2Raises(pmap, entry) THEN Threw(its)
         ELSE Ran(Phase2Entry(its, pmap, entry))

RECURSIVE EntriesFrom(_, _, _, _, _)
EntriesFrom(o, pmap, entries, phase, n) ==
    IF n > Len(entries) THEN o
    ELSE EntriesFrom(Then(o, LAMBDA its : Entry(its, pmap, entries[n], phase)),
                     pmap, entries, phase, n + 1)

\* Mutant: the loop goes on over the entities that only the text map has
Entries_TextToo(o, pmap, cmap, phase) ==
    EntriesFrom(o, pmap, cmap \o SelectSeq(pmap, LAMBDA e : e.key \notin Keys(cmap)), phase, 1)

\* Lines 116 and 144: for key, csv_votes in csv_map.items()
Entries(o, pmap, cmap, phase) == EntriesFrom(o, pmap, cmap, phase, 1)

RECURSIVE LabelsFrom(_, _, _, _)
\* Line 208: for label in ("BLANCOS", "NULOS")
LabelsFrom(o, pmap, cmap, n) ==
    IF n > Len(Labels) THEN o
    ELSE LabelsFrom(Then(o, LAMBDA its :
                                IF Phase3LabelRaises(pmap, cmap, Labels[n]) THEN Threw(its)
                                ELSE Ran(Phase3Label(its, pmap, cmap, Labels[n]))),
                    pmap, cmap, n + 1)

\* compare_results as a function of its two arguments
compare_results(pdf, csv) ==
    LET cmap == SelectCsvMap(pdf.entidades, csv)
        pmap == NormalizeMap(pdf.entidades)
        o1 == Entries(Header(Ran(Continue(<<>>)), 1), pmap, cmap, 1)
        o2 == Entries(Header(o1, 2), pmap, cmap, 2)
        o3 == Then(Header(o2, 3), LAMBDA its :
                      IF Phase3ValidRaises(pmap, cmap) THEN Threw(its)
                      ELSE Ran(Phase3Valid(its, pmap, cmap)))
        o3b == LabelsFrom(o3, pmap, cmap, 1)
        o4 == Then(Header(o3b, 4), LAMBDA its :
                      IF Phase4Raises(pmap, cmap) THEN Threw(its)
                      ELSE Ran(Phase4(its, pmap, cmap)))
    IN  Then(Header(o4, 5), LAMBDA its :
                IF Phase5Raises(Get(pmap, valid_key), Get(cmap, valid_key)) THEN Threw(its)
                ELSE Ran(Phase5(its, Val(Get(pmap, valid_key)), InvalidSum(pmap),
                                Val(Get(cmap, valid_key)), InvalidSum(cmap))))

\* The names and the counts of the entity that is added to the text map
ExtraNames == AllKeys \cup {Raw(k) : k \in AllKeys}

ExtraVotes == {<<0, 0, 0>>, <<100, 60, 40>>, <<9, 4, 4>>}

\* The text result with one more entity
WithEntity(pdf, name, v) ==
    [pdf EXCEPT !.entidades =
        Append(@, [key |-> name, value |-> EntityVotes(name, v[1], v[2], v[3])])]

\* The entity is new in the text map, its name is no key of the selected map
\* and none of the three labels of phase 3, and the selection stays as it was
TextOnly(name, v) ==
    /\ name \notin Keys(pdf_result.entidades)
    /\ Normalize(name) \notin {Normalize(k) : k \in Keys(csv_map)}
    /\ Normalize(name) \notin {"VOTOS VALIDOS", "BLANCOS", "NULOS"}
    /\ SelectCsvMap(WithEntity(pdf_result, name, v).entidades, csv_result) = csv_map

\* C22: the comparison is driven by the selected tabular map. What the run
\* returned is compare_results of its inputs, and adding to the text map an
\* entity that the selected map does not have (other than VOTOS VALIDOS,
\* BLANCOS, NULOS), with any counts and with the same map selected, gives the
\* same trace, the same halted flag and the same halt_reason.
C22_TextOnlyEntitiesIgnored ==
    Returned =>
        LET base == compare_results(pdf_result, csv_result)
        IN  /\ ~base.raised
            /\ base.r = Res
            /\ \A name \in ExtraNames, v \in ExtraVotes :
                  TextOnly(name, v) =>
                      LET more == compare_results(WithEntity(pdf_result, name, v), csv_result)
                      IN  /\ ~more.raised
                          /\ more.r.items = Res.items
                          /\ more.r.halted = Res.halted
                          /\ more.r.halt_reason = Res.halt_reason

\* A run passed all five phases on a text with an entity that the selected map
\* lacks, and a candidate B with counts of its own may still be added
C22_Witness ==
    /\ pc = "done"
    /\ \E k \in Keys(pdf_map) :
          k \notin Keys(csv_map) \cup {"VOTOS VALIDOS", "BLANCOS", "NULOS"}
    /\ TextOnly("B", <<9, 4, 4>>)
    /\ compare_results(WithEntity(pdf_result, "B", <<9, 4, 4>>), csv_result).r = Res

====
